---- MODULE Spec2Model ----
(***************************************************************************)
(* Vocari_RPG world generator: the deterministic quest validator           *)
(* (world/generators/quest_validator.py) and the retry loop that uses it   *)
(* (world/generators/quest_generator.py).                                  *)
(*                                                                         *)
(* Python values are modelled as follows.  A dict is a function or a       *)
(* record, a list is a sequence, a set is a set.  None, and a key that is  *)
(* missing from a dict read with .get(), is the string None.  Identifiers  *)
(* and level names are strings.  The text of a ValidationIssue message is  *)
(* reduced to the fixed words that open it.                                *)
(***************************************************************************)
EXTENDS Integers, Sequences, FiniteSets, TLC

VARIABLES
    validator,   \* the QuestValidator object: its lookup tables and seen_task_patterns
    call,        \* the last method called on it, with its arguments
    result,      \* what that call returned
    gen          \* the local variables of QuestGenerator.generate

vars == <<validator, call, result, gen>>

None == "None"

\* dict.get(k, default)
Get(d, k, default) == IF k \in DOMAIN d THEN d[k] ELSE default

\* the elements of a list, as a set
Range(s) == {s[i] : i \in DOMAIN s}

\* a set as a list, in some fixed order
RECURSIVE SetToSeq(_)
SetToSeq(S) ==
    IF S = {} THEN <<>>
    ELSE LET x == CHOOSE y \in S : TRUE IN <<x>> \o SetToSeq(S \ {x})

\* the concatenation of f[1], ..., f[n], each a list
RECURSIVE Flatten(_, _)
Flatten(f, n) == IF n = 0 THEN <<>> ELSE Flatten(f, n - 1) \o f[n]

(***************************************************************************)
(* Levels                                                                  *)
(***************************************************************************)
LevelNames == <<"A0", "A0+", "A1", "A1+", "A2">>

LEVEL_ORDER == [l \in Range(LevelNames) |->
                  CHOOSE i \in 0..4 : LevelNames[i + 1] = l]

\* LEVEL_ORDER.get(level, 0)
LevelNum(level) == Get(LEVEL_ORDER, level, 0)

(***************************************************************************)
(* QuestValidator.__init__                                                 *)
(*                                                                         *)
(* locations_data, npcs_data and items_data are the lists under the keys   *)
(* 'locations', 'npcs' and 'items'; world_map is a record whose field      *)
(* present is FALSE when the argument is None.                             *)
(***************************************************************************)

\* {x['id']: x for x in list}: a later entry with the same id wins
DictById(list) ==
    [id \in {list[i].id : i \in DOMAIN list} |->
        LET last == CHOOSE i \in DOMAIN list :
                        /\ list[i].id = id
                        /\ \A j \in DOMAIN list : list[j].id = id => j <= i
        IN list[last]]

\* {x['id']: x.get('location_id') for x in list}
LocationById(list) ==
    LET d == DictById(list) IN [id \in DOMAIN d |-> d[id].location_id]

\* {npc['id']: npc.get('language_level', 'A0') for npc in npcs}
NpcLevels(npcs_data) ==
    LET d == DictById(npcs_data)
    IN [id \in DOMAIN d |-> IF d[id].language_level = None THEN "A0"
                            ELSE d[id].language_level]

\* {loc['id']: loc.get('minimum_language_level', 'A0') for loc in locations}
LocationLevels(locations_data) ==
    LET d == DictById(locations_data)
    IN [id \in DOMAIN d |-> IF d[id].minimum_language_level = None THEN "A0"
                            ELSE d[id].minimum_language_level]

\* items_at_location: location id (or None) -> the ids of the items placed there
ItemsAtLocation(items_data) ==
    [loc \in {items_data[i].location_id : i \in DOMAIN items_data} |->
        LET idx == {i \in DOMAIN items_data : items_data[i].location_id = loc}
            RECURSIVE Collect(_)
            Collect(i) == IF i > Len(items_data) THEN <<>>
                          ELSE (IF i \in idx THEN <<items_data[i].id>> ELSE <<>>)
                               \o Collect(i + 1)
        IN Collect(1)]

\* The adjacency sets.  Every add is a set insertion, so the result does not
\* depend on the order of the two loops' iterations.
_build_location_graph(locations_data, world_map) ==
    LET ids == {locations_data[i].id : i \in DOMAIN locations_data}
        \* per-location 'connections': kept only when the target is a location,
        \* and added in both directions
        local == UNION {{<<locations_data[i].id, c>> :
                            c \in Range(locations_data[i].connections)} :
                        i \in DOMAIN locations_data}
        localOk == {e \in local : e[2] # None /\ e[2] \in ids}
        \* world_map 'connections': from -> to whenever from is a location,
        \* to -> from whenever the edge is bidirectional and to is a location
        conns == IF world_map.present
                 THEN {c \in Range(world_map.connections) :
                          c.from_location # None /\ c.to_location # None}
                 ELSE {}
    IN [l \in ids |->
          {e[2] : e \in {d \in localOk : d[1] = l}}
          \cup {e[1] : e \in {d \in localOk : d[2] = l}}
          \cup {c.to_location : c \in {d \in conns : d.from_location = l}}
          \cup {c.from_location :
                  c \in {d \in conns : d.to_location = l /\ d.bidirectional}}]

\* world_map.get('starting_location'), else the first location of level A0
StartingLocation(locations_data, world_map) ==
    LET given == IF world_map.present THEN world_map.starting_location ELSE None
        levels == LocationLevels(locations_data)
        \* dict order: the order in which the ids first appear in the list
        firstAt(id) == CHOOSE i \in DOMAIN locations_data :
                          /\ locations_data[i].id = id
                          /\ \A j \in 1..(i - 1) : locations_data[j].id # id
        a0 == {id \in DOMAIN levels : levels[id] = "A0"}
    IN IF given # None THEN given
       ELSE IF a0 = {} THEN None
       ELSE CHOOSE id \in a0 : \A other \in a0 : firstAt(id) <= firstAt(other)

QuestValidator(locations_data, npcs_data, items_data, world_map) ==
    [ locations           |-> DictById(locations_data),
      npcs                |-> DictById(npcs_data),
      items               |-> DictById(items_data),
      npc_locations       |-> LocationById(npcs_data),
      item_locations      |-> LocationById(items_data),
      items_at_location   |-> ItemsAtLocation(items_data),
      npc_levels          |-> NpcLevels(npcs_data),
      location_levels     |-> LocationLevels(locations_data),
      location_connections |-> _build_location_graph(locations_data, world_map),
      starting_location   |-> StartingLocation(locations_data, world_map),
      seen_task_patterns  |-> {} ]

(***************************************************************************)
(* QuestValidator._get_reachable_locations_at_level                        *)
(***************************************************************************)

\* `current_level_num <= max_level_num`, and the comparison turned around
MutantLevelAllowedInverted(current_level_num, max_level_num) ==
    current_level_num >= max_level_num

LevelAllowed(current_level_num, max_level_num) ==
    current_level_num <= max_level_num

\* The search with the neighbours of a location queued whether or not the
\* location itself passed the level test.
RECURSIVE MutantBfsLoopThroughBarrier(_, _, _, _, _)
MutantBfsLoopThroughBarrier(self, max_level_num, to_visit, visited, reachable) ==
    IF to_visit = <<>> THEN reachable
    ELSE LET current == Head(to_visit)
             rest == Tail(to_visit)
         IN IF current \in visited
            THEN MutantBfsLoopThroughBarrier(self, max_level_num, rest, visited,
                                             reachable)
            ELSE LET visited2 == visited \cup {current}
                     current_level_num ==
                         LevelNum(Get(self.location_levels, current, "A0"))
                     fresh == SetToSeq(Get(self.location_connections, current, {})
                                       \ visited2)
                 IN MutantBfsLoopThroughBarrier(
                        self, max_level_num, rest \o fresh, visited2,
                        IF current_level_num <= max_level_num
                        THEN reachable \cup {current} ELSE reachable)

\* One iteration of `while to_visit`, repeated until the list is empty.
RECURSIVE BfsLoop(_, _, _, _, _)
BfsLoop(self, max_level_num, to_visit, visited, reachable) ==
    IF to_visit = <<>> THEN reachable
    ELSE LET current == Head(to_visit)
             rest == Tail(to_visit)
         IN IF current \in visited
            THEN BfsLoop(self, max_level_num, rest, visited, reachable)
            ELSE LET visited2 == visited \cup {current}
                     current_level == Get(self.location_levels, current, "A0")
                     current_level_num == LevelNum(current_level)
                 IN IF LevelAllowed(current_level_num, max_level_num)
                    THEN LET neighbors == Get(self.location_connections, current, {})
                             fresh == SetToSeq(neighbors \ visited2)
                         IN BfsLoop(self, max_level_num, rest \o fresh,
                                    visited2, reachable \cup {current})
                    ELSE BfsLoop(self, max_level_num, rest, visited2, reachable)

_get_reachable_locations_at_level(self, max_level, start_location) ==
    LET max_level_num == LevelNum(max_level)
        start == IF start_location # None THEN start_location
                 ELSE self.starting_location
    IN IF start = None THEN {}
       ELSE BfsLoop(self, max_level_num, <<start>>, {}, {})

(***************************************************************************)
(* Quests, tasks and issues                                                *)
(*                                                                         *)
(* A quest is [id, giver_npc_id, language_level, target_vocabulary, tasks]; *)
(* a task is [id, order, completion_type, target_id], target_id being      *)
(* completion_criteria['target_id'].                                       *)
(***************************************************************************)
ERROR == "error"
WARNING == "warning"
INFO == "info"

ValidationIssue(severity, quest_id, task_id, rule, message) ==
    [severity |-> severity, quest_id |-> quest_id, task_id |-> task_id,
     rule |-> rule, message |-> message]

\* quest.get('id', 'unknown')
QuestId(quest) == IF quest.id = None THEN "unknown" ELSE quest.id

\* quest.get('language_level', 'A0')
QuestLevel(quest) == IF quest.language_level = None THEN "A0"
                     ELSE quest.language_level

\* sorted(tasks, key=lambda t: t.get('order', 0)): a stable sort, so tasks of
\* equal order keep their declaration order
RECURSIVE SortedByOrder(_)
SortedByOrder(tasks) ==
    IF tasks = <<>> THEN <<>>
    ELSE LET n == Len(tasks)
             before == SortedByOrder(SubSeq(tasks, 1, n - 1))
             t == tasks[n]
             k == Cardinality({i \in DOMAIN before : before[i].order <= t.order})
         IN SubSeq(before, 1, k) \o <<t>> \o SubSeq(before, k + 1, n - 1)

\* the issues a loop over `tasks` collects when each task adds those of per[i]
IssuesPerTask(per, n) == Flatten(per, n)

(***************************************************************************)
(* Rule 1: _rule_no_auto_complete_first_task                               *)
(***************************************************************************)
\* sorted_tasks[0], and the first declared task taken in its place
MutantFirstDeclaredTask(tasks) == tasks[1]

FirstTask(tasks) == SortedByOrder(tasks)[1]

_rule_no_auto_complete_first_task(self, quest) ==
    LET quest_id == QuestId(quest)
        tasks == quest.tasks
        giver_npc_id == quest.giver_npc_id
    IN IF tasks = <<>> \/ giver_npc_id = None THEN <<>>
       ELSE LET first_task == FirstTask(tasks)
                target == first_task.target_id
                giver_location == Get(self.npc_locations, giver_npc_id, None)
            IN (IF /\ first_task.completion_type = "at_location"
                   /\ target # None
                   /\ target = giver_location
                THEN <<ValidationIssue(ERROR, quest_id, first_task.id,
                         "no_auto_complete_first_task", "First task requires being at")>>
                ELSE <<>>)
               \o
               (IF /\ first_task.completion_type = "talked_to"
                   /\ target = giver_npc_id
                THEN <<ValidationIssue(WARNING, quest_id, first_task.id,
                         "no_auto_complete_first_task", "First task is to talk to quest giver")>>
                ELSE <<>>)

(***************************************************************************)
(* Rule 2: _rule_npc_diversity                                             *)
(***************************************************************************)
\* npc_interactions: the (task id, npc) pairs, in task order
RECURSIVE NpcInteractions(_, _)
NpcInteractions(tasks, last_talked_to_npc) ==
    IF tasks = <<>> THEN <<>>
    ELSE LET task == Head(tasks)
             comp_type == task.completion_type
         IN IF comp_type = "talked_to"
            THEN <<[task_id |-> task.id, npc |-> task.target_id]>>
                 \o NpcInteractions(Tail(tasks), task.target_id)
            ELSE IF comp_type \in {"gave_item", "received_item"}
                    /\ last_talked_to_npc # None
            THEN <<[task_id |-> task.id, npc |-> last_talked_to_npc]>>
                 \o NpcInteractions(Tail(tasks), last_talked_to_npc)
            ELSE NpcInteractions(Tail(tasks), last_talked_to_npc)

\* the loop over npc_interactions with consecutive_count and last_npc
RECURSIVE ConsecutiveWarnings(_, _, _, _)
ConsecutiveWarnings(quest_id, interactions, consecutive_count, last_npc) ==
    IF interactions = <<>> THEN <<>>
    ELSE LET it == Head(interactions)
             count == IF it.npc = last_npc THEN consecutive_count + 1 ELSE 1
         IN (IF it.npc = last_npc /\ count >= 3
             THEN <<ValidationIssue(WARNING, quest_id, it.task_id, "npc_diversity",
                                    "consecutive interactions")>>
             ELSE <<>>)
            \o ConsecutiveWarnings(quest_id, Tail(interactions), count, it.npc)

_rule_npc_diversity(self, quest) ==
    LET quest_id == QuestId(quest)
        npc_interactions == NpcInteractions(SortedByOrder(quest.tasks), None)
        unique_npcs == {npc_interactions[i].npc : i \in DOMAIN npc_interactions}
                       \ {None}
    IN IF Len(npc_interactions) < 3 THEN <<>>
       ELSE ConsecutiveWarnings(quest_id, npc_interactions, 1, None)
            \o (IF Cardinality(unique_npcs) = 1 /\ Len(npc_interactions) >= 3
                THEN <<ValidationIssue(ERROR, quest_id, None, "npc_diversity",
                                       "All NPC interactions are with")>>
                ELSE <<>>)

(***************************************************************************)
(* Rule 3: _rule_item_location_consistency                                 *)
(***************************************************************************)
_rule_item_location_consistency(self, quest) ==
    LET quest_id == QuestId(quest)
        tasks == quest.tasks
        per == [i \in DOMAIN tasks |->
                  LET task == tasks[i]
                      item_id == task.target_id
                  IN IF task.completion_type # "has_item" \/ item_id = None
                     THEN <<>>
                     ELSE IF item_id \notin DOMAIN self.items
                     THEN <<ValidationIssue(ERROR, quest_id, task.id,
                              "item_location_consistency", "does not exist in the game world")>>
                     ELSE IF self.items[item_id].location_id \notin DOMAIN self.locations
                     THEN <<ValidationIssue(ERROR, quest_id, task.id,
                              "item_location_consistency", "is at invalid location")>>
                     ELSE <<>>]
    IN IssuesPerTask(per, Len(tasks))

(***************************************************************************)
(* Rule 3b: _rule_item_at_correct_location                                 *)
(***************************************************************************)
\* the location a task leaves the player implied to be at; and the same
\* with the talked_to branch left out
MutantImpliedLocationIgnoresTalk(self, task, current_implied_location) ==
    IF task.completion_type = "at_location" THEN task.target_id
    ELSE current_implied_location

ImpliedLocationAfter(self, task, current_implied_location) ==
    LET comp_type == task.completion_type
        target_id == task.target_id
    IN IF comp_type = "at_location" THEN target_id
       ELSE IF /\ comp_type = "talked_to"
               /\ target_id # None
               /\ target_id \in DOMAIN self.npc_locations
               /\ self.npc_locations[target_id] # None
       THEN self.npc_locations[target_id]
       ELSE current_implied_location

\* the issue of a has_item task reached with the given implied location
ItemAtLocationIssue(self, quest_id, task, current_implied_location) ==
    LET target_id == task.target_id
    IN IF task.completion_type # "has_item" THEN <<>>
       ELSE IF target_id = None \/ target_id \notin DOMAIN self.items THEN <<>>
       ELSE LET actual_item_location == self.items[target_id].location_id
            IN IF /\ current_implied_location # None
                  /\ actual_item_location # None
                  /\ actual_item_location # current_implied_location
               THEN <<ValidationIssue(ERROR, quest_id, task.id,
                        "item_at_correct_location", "Quest implies getting")>>
               ELSE <<>>

RECURSIVE ItemAtLocationScan(_, _, _, _)
ItemAtLocationScan(self, quest_id, tasks, current_implied_location) ==
    IF tasks = <<>> THEN <<>>
    ELSE ItemAtLocationIssue(self, quest_id, Head(tasks), current_implied_location)
         \o ItemAtLocationScan(self, quest_id, Tail(tasks),
                ImpliedLocationAfter(self, Head(tasks), current_implied_location))

_rule_item_at_correct_location(self, quest) ==
    LET giver == quest.giver_npc_id
        start == IF giver # None /\ giver \in DOMAIN self.npc_locations
                 THEN self.npc_locations[giver] ELSE None
    IN ItemAtLocationScan(self, QuestId(quest), SortedByOrder(quest.tasks), start)

(***************************************************************************)
(* Rule 4: _rule_logical_item_flow                                         *)
(***************************************************************************)
\* the issue of a gave_item task reached with the given items_obtained; and
\* the same with every item the world knows counted as obtainable
MutantItemFlowAnyKindObtainable(self, quest_id, task, items_obtained) ==
    LET target_id == task.target_id
    IN IF task.completion_type # "gave_item" THEN <<>>
       ELSE IF target_id = None \/ target_id \in items_obtained THEN <<>>
       ELSE IF target_id \in DOMAIN self.items
       THEN <<ValidationIssue(WARNING, quest_id, task.id, "logical_item_flow",
                "no prior task explicitly obtains it")>>
       ELSE <<ValidationIssue(ERROR, quest_id, task.id, "logical_item_flow",
                "giving non-existent item")>>

ItemFlowIssue(self, quest_id, task, items_obtained) ==
    LET target_id == task.target_id
    IN IF task.completion_type # "gave_item" THEN <<>>
       ELSE IF target_id = None \/ target_id \in items_obtained THEN <<>>
       ELSE IF target_id \in DOMAIN self.items
       THEN IF self.items[target_id].acquisition_type \in {"gather", "purchase", "find"}
            THEN <<ValidationIssue(WARNING, quest_id, task.id, "logical_item_flow",
                     "no prior task explicitly obtains it")>>
            ELSE <<ValidationIssue(ERROR, quest_id, task.id, "logical_item_flow",
                     "which cannot be obtained")>>
       ELSE <<ValidationIssue(ERROR, quest_id, task.id, "logical_item_flow",
                "giving non-existent item")>>

RECURSIVE ItemFlowScan(_, _, _, _)
ItemFlowScan(self, quest_id, tasks, items_obtained) ==
    IF tasks = <<>> THEN <<>>
    ELSE LET task == Head(tasks)
             obtained2 == IF /\ task.completion_type \in {"has_item", "received_item"}
                             /\ task.target_id # None
                          THEN items_obtained \cup {task.target_id}
                          ELSE items_obtained
         IN ItemFlowIssue(self, quest_id, task, items_obtained)
            \o ItemFlowScan(self, quest_id, Tail(tasks), obtained2)

_rule_logical_item_flow(self, quest) ==
    ItemFlowScan(self, QuestId(quest), SortedByOrder(quest.tasks), {})

(***************************************************************************)
(* Rule 5: _rule_no_immediate_item_return                                  *)
(***************************************************************************)
\* the target of the last talked_to task, in list order, among the tasks that
\* satisfy the order test; `otherwise` when there is none
RECURSIVE LastTalkedTo(_, _, _, _)
LastTalkedTo(tasks, task_order, inclusive, otherwise) ==
    IF tasks = <<>> THEN otherwise
    ELSE LET t == Head(tasks)
             counts == /\ t.completion_type = "talked_to"
                       /\ IF inclusive THEN t.order <= task_order
                          ELSE t.order < task_order
         IN LastTalkedTo(Tail(tasks), task_order, inclusive,
                         IF counts THEN t.target_id ELSE otherwise)

\* the loop over the sorted tasks; st holds last_received_item,
\* last_received_from and last_received_task_order
RECURSIVE ItemReturnScan(_, _, _, _)
ItemReturnScan(quest_id, tasks, i, st) ==
    IF i > Len(tasks) THEN <<>>
    ELSE LET task == tasks[i]
             comp_type == task.completion_type
             target_id == task.target_id
             task_order == task.order
         IN IF comp_type = "received_item"
            THEN ItemReturnScan(quest_id, tasks, i + 1,
                    [last_received_item |-> target_id,
                     last_received_from |->
                         LastTalkedTo(tasks, task_order, FALSE, st.last_received_from),
                     last_received_task_order |-> task_order])
            ELSE IF comp_type = "gave_item"
            THEN (IF /\ target_id = st.last_received_item
                     /\ task_order = st.last_received_task_order + 1
                     /\ LastTalkedTo(tasks, task_order, TRUE, None)
                            = st.last_received_from
                  THEN <<ValidationIssue(ERROR, quest_id, task.id,
                           "no_immediate_item_return", "immediately returning it to same NPC")>>
                  ELSE <<>>)
                 \o ItemReturnScan(quest_id, tasks, i + 1, st)
            ELSE ItemReturnScan(quest_id, tasks, i + 1, st)

_rule_no_immediate_item_return(self, quest) ==
    ItemReturnScan(QuestId(quest), SortedByOrder(quest.tasks), 1,
                   [last_received_item |-> None, last_received_from |-> None,
                    last_received_task_order |-> -1])

(***************************************************************************)
(* Rule 6: _rule_valid_references                                          *)
(***************************************************************************)
_rule_valid_references(self, quest) ==
    LET quest_id == QuestId(quest)
        tasks == quest.tasks
        per == [i \in DOMAIN tasks |->
                  LET task == tasks[i]
                      comp_type == task.completion_type
                      target_id == task.target_id
                  IN IF target_id = None THEN <<>>
                     ELSE IF comp_type = "at_location"
                     THEN IF target_id \notin DOMAIN self.locations
                          THEN <<ValidationIssue(ERROR, quest_id, task.id,
                                   "valid_references", "Location does not exist")>>
                          ELSE <<>>
                     ELSE IF comp_type = "talked_to"
                     THEN IF target_id \notin DOMAIN self.npcs
                          THEN <<ValidationIssue(ERROR, quest_id, task.id,
                                   "valid_references", "NPC does not exist")>>
                          ELSE <<>>
                     ELSE IF comp_type \in {"has_item", "gave_item", "received_item"}
                     THEN IF target_id \notin DOMAIN self.items
                          THEN <<ValidationIssue(ERROR, quest_id, task.id,
                                   "valid_references", "Item does not exist")>>
                          ELSE <<>>
                     ELSE <<>>]
    IN IssuesPerTask(per, Len(tasks))

(***************************************************************************)
(* Rule 7: _rule_valid_quest_giver                                         *)
(***************************************************************************)
_rule_valid_quest_giver(self, quest) ==
    LET giver == quest.giver_npc_id
    IN IF giver # None /\ giver \notin DOMAIN self.npcs
       THEN <<ValidationIssue(ERROR, QuestId(quest), None, "valid_quest_giver",
                "Quest giver NPC does not exist")>>
       ELSE <<>>

(***************************************************************************)
(* Rule 8: _rule_logical_task_order                                        *)
(***************************************************************************)
RECURSIVE TaskOrderScan(_, _, _, _)
TaskOrderScan(self, quest_id, tasks, visited_locations) ==
    IF tasks = <<>> THEN <<>>
    ELSE LET task == Head(tasks)
             comp_type == task.completion_type
             target_id == task.target_id
             npc_location == Get(self.npc_locations, target_id, None)
         IN IF comp_type = "at_location"
            THEN TaskOrderScan(self, quest_id, Tail(tasks),
                    IF target_id # None THEN visited_locations \cup {target_id}
                    ELSE visited_locations)
            ELSE IF comp_type = "talked_to" /\ target_id # None
            THEN (IF npc_location # None /\ npc_location \notin visited_locations
                  THEN <<ValidationIssue(INFO, quest_id, task.id, "logical_task_order",
                           "Talk to NPC but no prior task to go there")>>
                  ELSE <<>>)
                 \o TaskOrderScan(self, quest_id, Tail(tasks), visited_locations)
            ELSE IF /\ comp_type = "has_item"
                    /\ target_id # None
                    /\ target_id \in DOMAIN self.items
            THEN (IF /\ self.items[target_id].location_id # None
                     /\ self.items[target_id].location_id \notin visited_locations
                  THEN <<ValidationIssue(INFO, quest_id, task.id, "logical_task_order",
                           "Get item but no prior task to go there")>>
                  ELSE <<>>)
                 \o TaskOrderScan(self, quest_id, Tail(tasks), visited_locations)
            ELSE TaskOrderScan(self, quest_id, Tail(tasks), visited_locations)

_rule_logical_task_order(self, quest) ==
    LET giver == quest.giver_npc_id
        giver_loc == IF giver # None /\ giver \in DOMAIN self.npc_locations
                     THEN self.npc_locations[giver] ELSE None
    IN TaskOrderScan(self, QuestId(quest), SortedByOrder(quest.tasks),
                     IF giver_loc # None THEN {giver_loc} ELSE {})

(***************************************************************************)
(* Rule 9: _rule_language_level_consistency                                *)
(***************************************************************************)
_rule_language_level_consistency(self, quest) ==
    LET quest_id == QuestId(quest)
        quest_level_num == LevelNum(QuestLevel(quest))
        giver_id == quest.giver_npc_id
        tasks == quest.tasks
        giverIssue ==
            IF /\ giver_id # None
               /\ giver_id \in DOMAIN self.npc_levels
               /\ LevelNum(self.npc_levels[giver_id]) > quest_level_num + 1
            THEN <<ValidationIssue(WARNING, quest_id, None,
                     "language_level_consistency", "quest giver NPC is level")>>
            ELSE <<>>
        per == [i \in DOMAIN tasks |->
                  LET task == tasks[i]
                      comp_type == task.completion_type
                      target_id == task.target_id
                  IN IF /\ comp_type = "at_location"
                        /\ target_id # None
                        /\ target_id \in DOMAIN self.location_levels
                     THEN IF LevelNum(self.location_levels[target_id]) > quest_level_num + 1
                          THEN <<ValidationIssue(WARNING, quest_id, task.id,
                                   "language_level_consistency", "requires visiting location")>>
                          ELSE <<>>
                     ELSE IF /\ comp_type = "talked_to"
                             /\ target_id # None
                             /\ target_id \in DOMAIN self.npc_levels
                     THEN IF LevelNum(self.npc_levels[target_id]) > quest_level_num + 1
                          THEN <<ValidationIssue(WARNING, quest_id, task.id,
                                   "language_level_consistency", "requires talking to NPC")>>
                          ELSE <<>>
                     ELSE <<>>]
    IN giverIssue \o IssuesPerTask(per, Len(tasks))

(***************************************************************************)
(* Rule 10: _rule_vocabulary_progression                                   *)
(***************************************************************************)
VOCAB_RANGES == [l \in Range(LevelNames) |->
                   CASE l = "A0"  -> <<1, 4>>
                     [] l = "A0+" -> <<2, 5>>
                     [] l = "A1"  -> <<3, 6>>
                     [] l = "A1+" -> <<3, 7>>
                     [] l = "A2"  -> <<4, 8>>]

_rule_vocabulary_progression(self, quest) ==
    LET quest_id == QuestId(quest)
        quest_level == QuestLevel(quest)
        vocab_count == Len(quest.target_vocabulary)
        range == Get(VOCAB_RANGES, quest_level, <<1, 10>>)
    IN IF vocab_count > 0 /\ vocab_count < range[1]
       THEN <<ValidationIssue(INFO, quest_id, None, "vocabulary_progression",
                "expected at least")>>
       ELSE IF vocab_count > 0 /\ vocab_count > range[2]
       THEN <<ValidationIssue(WARNING, quest_id, None, "vocabulary_progression",
                "expected at most")>>
       ELSE <<>>

(***************************************************************************)
(* Rule 11: _rule_no_duplicate_structures                                  *)
(***************************************************************************)
\* '-'.join(parts)
RECURSIVE Join(_)
Join(parts) ==
    IF parts = <<>> THEN ""
    ELSE IF Len(parts) = 1 THEN parts[1]
    ELSE parts[1] \o "-" \o Join(Tail(parts))

TaskPattern(quest) ==
    LET sorted == SortedByOrder(quest.tasks)
    IN Join([i \in DOMAIN sorted |-> sorted[i].completion_type])

\* the rule with its finding raised to a warning
MutantDuplicateIsWarning(self, quest) == IF TaskPattern(quest) \in self.seen_task_patterns THEN <<ValidationIssue(WARNING, QuestId(quest), None, "no_duplicate_structures", "Quest has same task pattern as another quest")>> ELSE <<>>

_rule_no_duplicate_structures(self, quest) ==
    IF TaskPattern(quest) \in self.seen_task_patterns
    THEN <<ValidationIssue(INFO, QuestId(quest), None, "no_duplicate_structures",
             "Quest has same task pattern as another quest")>>
    ELSE <<>>

\* self.seen_task_patterns once the rule has run
SeenAfter(self, quest) == self.seen_task_patterns \cup {TaskPattern(quest)}

(***************************************************************************)
(* Rule 12: _rule_location_path_accessibility                              *)
(***************************************************************************)
\* the location a task needs the player to get to, None when it needs none
\* that the world knows of
MutantRequiredLocationTargetOnly(self, task) ==
    IF task.completion_type = "at_location" THEN task.target_id ELSE None

RequiredLocation(self, task) ==
    LET comp_type == task.completion_type
        target_id == task.target_id
    IN IF target_id = None THEN None
       ELSE IF comp_type = "at_location" THEN target_id
       ELSE IF comp_type = "talked_to" THEN Get(self.npc_locations, target_id, None)
       ELSE IF comp_type = "has_item" THEN Get(self.item_locations, target_id, None)
       ELSE None

_rule_location_path_accessibility(self, quest) ==
    LET quest_id == QuestId(quest)
        quest_level == QuestLevel(quest)
        tasks == quest.tasks
        reachable == _get_reachable_locations_at_level(self, quest_level, None)
        giver_id == quest.giver_npc_id
        giver_loc == IF giver_id # None /\ giver_id \in DOMAIN self.npc_locations
                     THEN self.npc_locations[giver_id] ELSE None
        giverIssue ==
            IF giver_loc # None /\ giver_loc \notin reachable
            THEN <<ValidationIssue(ERROR, quest_id, None,
                     "location_path_accessibility", "Quest giver is not reachable")>>
            ELSE <<>>
        per == [i \in DOMAIN tasks |->
                  LET task == tasks[i]
                      loc == RequiredLocation(self, task)
                  IN IF loc # None /\ loc \notin reachable
                     THEN <<ValidationIssue(ERROR, quest_id, task.id,
                              "location_path_accessibility",
                              CASE task.completion_type = "at_location"
                                     -> "Location is not reachable"
                                [] task.completion_type = "talked_to"
                                     -> "NPC is not reachable"
                                [] OTHER -> "Item is not reachable")>>
                     ELSE <<>>]
    IN giverIssue \o IssuesPerTask(per, Len(tasks))

(***************************************************************************)
(* Rule 13: _rule_item_actually_at_location                                *)
(***************************************************************************)
_rule_item_actually_at_location(self, quest) ==
    LET quest_id == QuestId(quest)
        tasks == quest.tasks
        per == [i \in DOMAIN tasks |->
                  LET task == tasks[i]
                      target_id == task.target_id
                  IN IF task.completion_type \notin {"has_item", "gave_item", "received_item"}
                     THEN <<>>
                     ELSE IF target_id = None \/ target_id \notin DOMAIN self.items
                     THEN <<>>
                     ELSE LET item_location == self.items[target_id].location_id
                          IN IF item_location = None
                             THEN <<ValidationIssue(ERROR, quest_id, task.id,
                                      "item_actually_at_location", "has no location_id")>>
                             ELSE IF item_location \notin DOMAIN self.locations
                             THEN <<ValidationIssue(ERROR, quest_id, task.id,
                                      "item_actually_at_location",
                                      "is placed at non-existent location")>>
                             ELSE IF target_id \notin
                                        Range(Get(self.items_at_location, item_location, <<>>))
                             THEN <<ValidationIssue(WARNING, quest_id, task.id,
                                      "item_actually_at_location",
                                      "is not in items_at_location index")>>
                             ELSE <<>>]
    IN IssuesPerTask(per, Len(tasks))

(***************************************************************************)
(* validate_quest, validate_all and the helpers on issue lists             *)
(***************************************************************************)
validate_quest(self, quest) ==
    _rule_no_auto_complete_first_task(self, quest)
    \o _rule_npc_diversity(self, quest)
    \o _rule_item_location_consistency(self, quest)
    \o _rule_item_at_correct_location(self, quest)
    \o _rule_logical_item_flow(self, quest)
    \o _rule_no_immediate_item_return(self, quest)
    \o _rule_valid_references(self, quest)
    \o _rule_valid_quest_giver(self, quest)
    \o _rule_logical_task_order(self, quest)
    \o _rule_language_level_consistency(self, quest)
    \o _rule_vocabulary_progression(self, quest)
    \o _rule_no_duplicate_structures(self, quest)
    \o _rule_location_path_accessibility(self, quest)
    \o _rule_item_actually_at_location(self, quest)

\* a validate_quest that also forgets where the player starts
MutantValidateForgetsStart(self, quest) == [self EXCEPT !.seen_task_patterns = SeenAfter(self, quest), !.starting_location = None]

\* the validator once validate_quest has returned: only rule 11 writes to it
AfterValidateQuest(self, quest) ==
    [self EXCEPT !.seen_task_patterns = SeenAfter(self, quest)]

\* the validator once the first n quests of the list have been validated:
\* every one of them has left its pattern in seen_task_patterns
AfterValidateAll(self, quests, n) ==
    [self EXCEPT !.seen_task_patterns =
        self.seen_task_patterns \cup {TaskPattern(quests[k]) : k \in 1..n}]

validate_all(self, quests) ==
    Flatten([i \in DOMAIN quests |->
                validate_quest(AfterValidateAll(self, quests, i - 1), quests[i])],
            Len(quests))

\* {i.quest_id for i in issues if i.severity == ...}: the test on the
\* severity, and a test that also counts warnings
MutantRejectsWarnings(severity) == severity \in {ERROR, WARNING}

Rejecting(severity) == severity = ERROR

get_invalid_quest_ids(issues) ==
    {issues[i].quest_id : i \in {j \in DOMAIN issues : Rejecting(issues[j].severity)}}

filter_by_severity(issues, severity) ==
    SelectSeq(issues, LAMBDA i : i.severity = severity)

\* self.seen_task_patterns.clear(), and a reset that clears nothing
MutantResetKeepsPatterns(self) == self

reset_pattern_tracking(self) == [self EXCEPT !.seen_task_patterns = {}]

(***************************************************************************)
(* The state machine: a validator is constructed, then methods are called  *)
(* on it.  call names the last method and its arguments, result holds its  *)
(* return value.                                                           *)
(***************************************************************************)
NoCall == [op |-> "none"]
GenIdle == [pc |-> "idle"]

\* validator._get_reachable_locations_at_level(max_level, start_location)
CallReachable(max_level, start_location) ==
    /\ call' = [op |-> "_get_reachable_locations_at_level",
                max_level |-> max_level, start_location |-> start_location]
    /\ result' = _get_reachable_locations_at_level(validator, max_level,
                                                   start_location)
    /\ UNCHANGED <<validator, gen>>

(***************************************************************************)
(* Worlds for the reachability analysis: three locations of any levels,    *)
(* joined by any subset of four world-map connections (one of them         *)
(* one-way, one of them leading to an identifier that is no location),     *)
(* with or without per-location connection lists and an explicit start.    *)
(***************************************************************************)
ReachConnections ==
    << [from_location |-> "market",  to_location |-> "barrier",  bidirectional |-> TRUE],
       [from_location |-> "barrier", to_location |-> "target",   bidirectional |-> TRUE],
       [from_location |-> "target",  to_location |-> "market",   bidirectional |-> FALSE],
       [from_location |-> "barrier", to_location |-> "atlantis", bidirectional |-> TRUE] >>

\* the entries of list whose index is in keep, in list order
RECURSIVE SubSeqOf(_, _)
SubSeqOf(list, keep) ==
    IF list = <<>> THEN <<>>
    ELSE SubSeqOf(SubSeq(list, 1, Len(list) - 1), keep)
         \o (IF Len(list) \in keep THEN <<list[Len(list)]>> ELSE <<>>)

ReachLocations(lv, withLocal) ==
    << [id |-> "market",  minimum_language_level |-> lv[1],
        connections |-> IF withLocal THEN <<"target", "atlantis">> ELSE <<>>],
       [id |-> "barrier", minimum_language_level |-> lv[2], connections |-> <<>>],
       [id |-> "target",  minimum_language_level |-> lv[3], connections |-> <<>>] >>

ReachWorldMaps ==
    {[present |-> TRUE, starting_location |-> st,
      connections |-> SubSeqOf(ReachConnections, keep)] :
        st \in {"market", None}, keep \in SUBSET (1..Len(ReachConnections))}

InitReach ==
    /\ \E lv \in [1..3 -> Range(LevelNames)], withLocal \in BOOLEAN,
          wm \in ReachWorldMaps :
            validator = QuestValidator(ReachLocations(lv, withLocal), <<>>, <<>>, wm)
    /\ call = NoCall
    /\ result = <<>>
    /\ gen = GenIdle

NextReach ==
    \E max_level \in Range(LevelNames), start_location \in {None, "barrier"} :
        CallReachable(max_level, start_location)

SpecReach == InitReach /\ [][NextReach]_vars

(***************************************************************************)
(* The world of the validator's tests, with the entries the tests add to   *)
(* it: an item with no location_id, an item placed at a location that does *)
(* not exist, and an NPC with no location_id.                              *)
(***************************************************************************)
Loc(id, level, connections) ==
    [id |-> id, minimum_language_level |-> level, connections |-> connections]
Npc(id, location_id, level) ==
    [id |-> id, location_id |-> location_id, language_level |-> level]
Item(id, location_id, acquisition_type) ==
    [id |-> id, location_id |-> location_id, acquisition_type |-> acquisition_type]
Connection(from_location, to_location) ==
    [from_location |-> from_location, to_location |-> to_location,
     bidirectional |-> TRUE]

sample_locations ==
    << Loc("market", "A0",  <<"plaza", "forest">>),
       Loc("forest", "A0",  <<"market", "garden">>),
       Loc("garden", "A0+", <<"forest", "bakery">>),
       Loc("bakery", "A1",  <<"garden", "plaza">>),
       Loc("plaza",  "A0",  <<"market", "bakery">>) >>

sample_npcs ==
    << Npc("maria", "market", "A0"),
       Npc("juan",  "bakery", "A1"),
       Npc("rosa",  "garden", "A0+"),
       Npc("pedro", "forest", "A0"),
       Npc("drifter", None, None) >>

sample_items ==
    << Item("apple",   "market", "purchase"),
       Item("bread",   "bakery", "purchase"),
       Item("herbs",   "forest", "gather"),
       Item("flowers", "garden", "gather"),
       Item("letter",  "plaza",  "receive"),
       Item("magic_sword", "castle", "find"),
       Item("floating_item", None, "find") >>

sample_world_map ==
    [present |-> TRUE, starting_location |-> "market",
     connections |-> << Connection("market", "plaza"),
                        Connection("market", "forest"),
                        Connection("forest", "garden"),
                        Connection("garden", "bakery"),
                        Connection("plaza", "bakery") >>]

SampleValidator ==
    QuestValidator(sample_locations, sample_npcs, sample_items, sample_world_map)

\* the chain market (A0) - forest (A0) - garden (A0+) - bakery (A1)
chain_locations ==
    << Loc("market", "A0",  <<"forest">>),
       Loc("forest", "A0",  <<"market", "garden">>),
       Loc("garden", "A0+", <<"forest", "bakery">>),
       Loc("bakery", "A1",  <<"garden">>) >>

chain_world_map ==
    [present |-> TRUE, starting_location |-> "market",
     connections |-> << Connection("market", "forest"),
                        Connection("forest", "garden"),
                        Connection("garden", "bakery") >>]

ChainValidator ==
    QuestValidator(chain_locations, sample_npcs, sample_items, chain_world_map)

(***************************************************************************)
(* Quests handed to the validator                                          *)
(***************************************************************************)
MaxTasks == 3

Step(completion_type, target_id, order) ==
    [completion_type |-> completion_type, target_id |-> target_id, order |-> order]

\* a quest with the given tasks, the task declared i-th having the id t<i>
QuestOf(id, giver, level, steps) ==
    [id |-> id, giver_npc_id |-> giver, language_level |-> level,
     target_vocabulary |-> <<>>,
     tasks |-> [i \in DOMAIN steps |->
                  [id |-> "t" \o ToString(i), order |-> steps[i].order,
                   completion_type |-> steps[i].completion_type,
                   target_id |-> steps[i].target_id]]]

\* a rule method called directly on the validator, as the tests do
CallRule(op, quest, issues) ==
    /\ call' = [op |-> op, quest |-> quest]
    /\ result' = issues
    /\ UNCHANGED <<validator, gen>>

InitSample ==
    /\ validator = SampleValidator
    /\ call = NoCall
    /\ result = <<>>
    /\ gen = GenIdle

\* ---- rule 1
FirstTaskSteps ==
    {Step("at_location", t, o) : t \in {"market", "forest", None}, o \in {1, 2}}
    \cup {Step("talked_to", t, o) : t \in {"maria", "pedro"}, o \in {1, 2}}
    \cup {Step("has_item", "apple", o) : o \in {1, 2}}

FirstTaskGivers == {"maria", "pedro", "drifter", "ghost", None}

NextFirstTask ==
    /\ call.op = "none"
    /\ \E giver \in FirstTaskGivers, level \in {"A0"}, n \in 0..MaxTasks :
       \E steps \in [1..n -> FirstTaskSteps] :
       \E quest \in {QuestOf("q1", giver, level, steps)} :
          CallRule("_rule_no_auto_complete_first_task", quest,
                   _rule_no_auto_complete_first_task(validator, quest))

SpecFirstTask == InitSample /\ [][NextFirstTask]_vars

\* ---- rule 3b
ItemLocationSteps ==
    {Step("at_location", t, o) : t \in {"garden", None}, o \in {1, 2}}
    \cup {Step("talked_to", t, o) : t \in {"rosa", "drifter"}, o \in {1, 2}}
    \cup {Step("has_item", t, o) : t \in {"apple", "flowers", "floating_item"},
                                   o \in {1, 2}}
    \cup {Step("gave_item", "apple", o) : o \in {1, 2}}

ItemLocationGivers == {"maria", "ghost", None}

NextItemLocation ==
    /\ call.op = "none"
    /\ \E giver \in ItemLocationGivers, level \in {"A0"}, n \in 0..MaxTasks :
       \E steps \in [1..n -> ItemLocationSteps] :
       \E quest \in {QuestOf("q1", giver, level, steps)} :
          CallRule("_rule_item_at_correct_location", quest,
                   _rule_item_at_correct_location(validator, quest))

SpecItemLocation == InitSample /\ [][NextItemLocation]_vars

\* ---- rule 4
ItemFlowSteps ==
    {Step("has_item", t, o) : t \in {"apple", "letter"}, o \in {1, 2}}
    \cup {Step("received_item", t, o) : t \in {"letter", "phantom"}, o \in {1, 2}}
    \cup {Step("gave_item", t, o) :
            t \in {"apple", "herbs", "magic_sword", "letter", "phantom"},
            o \in {1, 2}}

ItemFlowGivers == {"maria"}

NextItemFlow ==
    /\ call.op = "none"
    /\ \E giver \in ItemFlowGivers, level \in {"A0"}, n \in 0..MaxTasks :
       \E steps \in [1..n -> ItemFlowSteps] :
       \E quest \in {QuestOf("q1", giver, level, steps)} :
          CallRule("_rule_logical_item_flow", quest,
                   _rule_logical_item_flow(validator, quest))

SpecItemFlow == InitSample /\ [][NextItemFlow]_vars

\* ---- rule 5
ItemReturnSteps ==
    {Step("talked_to", t, o) : t \in {"maria", "juan"}, o \in {1, 2, 4}}
    \cup {Step("received_item", "apple", o) : o \in {1, 2, 4}}
    \cup {Step("gave_item", t, o) : t \in {"apple", "bread"}, o \in {1, 2, 4}}
    \cup {Step("at_location", "market", o) : o \in {1, 2, 4}}

ItemReturnGivers == {"maria"}

NextItemReturn ==
    /\ call.op = "none"
    /\ \E giver \in ItemReturnGivers, level \in {"A0"}, n \in 0..MaxTasks :
       \E steps \in [1..n -> ItemReturnSteps] :
       \E quest \in {QuestOf("q1", giver, level, steps)} :
          CallRule("_rule_no_immediate_item_return", quest,
                   _rule_no_immediate_item_return(validator, quest))

SpecItemReturn == InitSample /\ [][NextItemReturn]_vars

\* ---- rule 12
AccessibilitySteps ==
    {Step("at_location", t, 1) : t \in {"forest", "garden", "bakery", "atlantis"}}
    \cup {Step("talked_to", t, 1) : t \in {"juan", "rosa", "drifter", "ghost"}}
    \cup {Step("has_item", t, 1) : t \in {"bread", "herbs", "floating_item"}}
    \cup {Step("gave_item", "bread", 1)}

AccessibilityGivers == {"maria", "juan", None}

InitAccessibility ==
    /\ validator \in {SampleValidator, ChainValidator}
    /\ call = NoCall
    /\ result = <<>>
    /\ gen = GenIdle

NextAccessibility ==
    /\ call.op = "none"
    /\ \E giver \in AccessibilityGivers, level \in {"A0", "A1"}, n \in 0..MaxTasks :
       \E steps \in [1..n -> AccessibilitySteps] :
       \E quest \in {QuestOf("q1", giver, level, steps)} :
          CallRule("_rule_location_path_accessibility", quest,
                   _rule_location_path_accessibility(validator, quest))

SpecAccessibility == InitAccessibility /\ [][NextAccessibility]_vars

(***************************************************************************)
(* Level-bounded reachability (C4, C5)                                     *)
(***************************************************************************)

\* The order A0 < A0+ < A1 < A1+ < A2, stated on its own.
LevelBelow(x, y) ==
    <<x, y>> \in {<<"A0", "A0+">>, <<"A0", "A1">>, <<"A0", "A1+">>, <<"A0", "A2">>,
                  <<"A0+", "A1">>, <<"A0+", "A1+">>, <<"A0+", "A2">>,
                  <<"A1", "A1+">>, <<"A1", "A2">>, <<"A1+", "A2">>}

AtOrBelow(x, y) == x = y \/ LevelBelow(x, y)

ReachCalled == call.op = "_get_reachable_locations_at_level"

\* the start the last call searched from
CalledStart == IF call.start_location # None THEN call.start_location
               ELSE validator.starting_location

\* the identifiers the adjacency map speaks of
GraphNodes ==
    DOMAIN validator.location_connections
    \cup UNION {validator.location_connections[l] :
                  l \in DOMAIN validator.location_connections}
    \cup ({CalledStart} \ {None})

\* the level a node must be entered at; an identifier with no Location entry
\* carries no level of its own and is read as A0
NodeLevel(n) == IF n \in DOMAIN validator.location_levels
                THEN validator.location_levels[n] ELSE "A0"

HasEdge(a, b) == a \in DOMAIN validator.location_connections
                 /\ b \in validator.location_connections[a]

\* p is a path from the start on which every node is at or below max_level
IsLowPath(p, max_level) ==
    /\ p[1] = CalledStart
    /\ \A i \in DOMAIN p : AtOrBelow(NodeLevel(p[i]), max_level)
    /\ \A i \in 1..(Len(p) - 1) : HasEdge(p[i], p[i + 1])

PathsUpTo(n) == UNION {[1..k -> GraphNodes] : k \in 1..n}

PathReachable(max_level) ==
    {p[Len(p)] : p \in {q \in PathsUpTo(Cardinality(GraphNodes)) :
                          IsLowPath(q, max_level)}}

\* C4: the set returned at level X is a subset of the set returned, for the
\* same world and start, at every level X' above X (and contains the set
\* returned at every level below X).
Thm_C4_ReachabilityMonotone ==
    ReachCalled =>
        \A other \in Range(LevelNames) :
            /\ LevelBelow(call.max_level, other) =>
                 result \subseteq _get_reachable_locations_at_level(
                                      validator, other, call.start_location)
            /\ LevelBelow(other, call.max_level) =>
                 _get_reachable_locations_at_level(
                     validator, other, call.start_location) \subseteq result

\* a call at A0 that leaves out the target, which a call at A1+ reaches
Wit_C4_GrowsWithLevel ==
    /\ ReachCalled
    /\ call.max_level = "A0"
    /\ "market" \in result
    /\ "target" \notin result
    /\ "target" \in _get_reachable_locations_at_level(validator, "A1+",
                                                      call.start_location)

MaxBatch == 2

\* quest bodies: two that pass, one that only draws a warning, three that
\* break a rule
BatchBodies ==
    { [giver |-> "maria", steps |-> <<Step("talked_to", "pedro", 1),
                                      Step("has_item", "herbs", 2)>>],
      [giver |-> "pedro", steps |-> <<Step("talked_to", "maria", 1),
                                      Step("has_item", "apple", 2)>>],
      [giver |-> "maria", steps |-> <<Step("talked_to", "maria", 1),
                                      Step("at_location", "forest", 2)>>],
      [giver |-> "maria", steps |-> <<Step("at_location", "market", 1)>>],
      [giver |-> "ghost", steps |-> <<Step("at_location", "forest", 1)>>],
      [giver |-> "maria", steps |-> <<Step("at_location", "forest", 1),
                                      Step("gave_item", "letter", 2)>>] }

BatchIds == {"q" \o ToString(i) : i \in 1..MaxBatch}

\* the batch of the quests with the given ids and bodies
BatchOf(ids, bodies) ==
    [i \in DOMAIN ids |-> QuestOf(ids[i], bodies[i].giver, "A0", bodies[i].steps)]

\* issues = validator.validate_all({"quests": quests})
CallValidateAll(quests) ==
    /\ call' = [op |-> "validate_all", quests |-> quests]
    /\ result' = validate_all(validator, quests)
    /\ validator' = AfterValidateAll(validator, quests, Len(quests))
    /\ UNCHANGED gen

\* validator.get_invalid_quest_ids(issues) on what validate_all returned
CallGetInvalidQuestIds ==
    /\ call.op = "validate_all"
    /\ call' = [op |-> "get_invalid_quest_ids", quests |-> call.quests,
                issues |-> result]
    /\ result' = get_invalid_quest_ids(result)
    /\ UNCHANGED <<validator, gen>>

NextValidateAll ==
    \/ /\ call.op = "none"
       /\ \E n \in 0..MaxBatch :
          \E ids \in [1..n -> BatchIds], bodies \in [1..n -> BatchBodies] :
             CallValidateAll(BatchOf(ids, bodies))
    \/ CallGetInvalidQuestIds

SpecValidateAll == InitSample /\ [][NextValidateAll]_vars

(***************************************************************************)
(* QuestGenerator.generate: the retry loop.  The loop is entered with a    *)
(* validator built from the world by the four-parameter constructor; the   *)
(* call on line 142 hands the constructor a fifth argument (games), which  *)
(* this QuestValidator does not take.                                      *)
(***************************************************************************)
MIN_VALID_QUESTS == 20
MAX_RETRIES == 5
QUESTS_PER_BATCH == 10

\* BaseGenerator.slugify on a text given as its sequence of characters
Uppers == <<"A", "B", "C", "D", "E", "F", "G", "H", "I", "J", "K", "L", "M",
            "N", "O", "P", "Q", "R", "S", "T", "U", "V", "W", "X", "Y", "Z">>
Lowers == <<"a", "b", "c", "d", "e", "f", "g", "h", "i", "j", "k", "l", "m",
            "n", "o", "p", "q", "r", "s", "t", "u", "v", "w", "x", "y", "z">>
Digits == <<"0", "1", "2", "3", "4", "5", "6", "7", "8", "9">>

\* str.lower on one character
Lower(c) ==
    IF c \in Range(Uppers)
    THEN Lowers[CHOOSE i \in DOMAIN Uppers : Uppers[i] = c] ELSE c

\* re.sub(r'[^a-z0-9]+', '_', slug): every run of other characters becomes
\* one underscore
RECURSIVE SubNonAlnum(_)
SubNonAlnum(chars) ==
    IF chars = <<>> THEN <<>>
    ELSE IF Head(chars) \in Range(Lowers) \cup Range(Digits)
    THEN <<Head(chars)>> \o SubNonAlnum(Tail(chars))
    ELSE LET rest == SubNonAlnum(Tail(chars))
         IN IF rest # <<>> /\ Head(rest) = "_"
               /\ Len(chars) > 1
               /\ chars[2] \notin Range(Lowers) \cup Range(Digits)
            THEN rest ELSE <<"_">> \o rest

\* str.strip('_')
RECURSIVE StripUnderscores(_)
StripUnderscores(chars) ==
    IF chars = <<>> THEN <<>>
    ELSE IF Head(chars) = "_" THEN StripUnderscores(Tail(chars))
    ELSE IF chars[Len(chars)] = "_"
    THEN StripUnderscores(SubSeq(chars, 1, Len(chars) - 1))
    ELSE chars

\* ''.join(chars)
RECURSIVE Concat(_)
Concat(chars) ==
    IF chars = <<>> THEN "" ELSE Head(chars) \o Concat(Tail(chars))

slugify(text) ==
    LET slug == StripUnderscores(SubNonAlnum([i \in DOMAIN text |-> Lower(text[i])]))
    IN IF slug = <<>> THEN "item"
       ELSE Concat(SubSeq(slug, 1, IF Len(slug) < 30 THEN Len(slug) ELSE 30))

\* the lookup tables generate builds for the conversion of indices
IdsOf(list) == [i \in DOMAIN list |-> list[i].id]

\* tbl[idx] for a 0-based idx that is in range, None for an index that is
\* out of range or absent (an absent index is written -1)
AtIndex(tbl, idx) ==
    IF 0 <= idx /\ idx < Len(tbl) THEN tbl[idx + 1] ELSE None

\* _convert_indices_to_ids(quest, quest_number), on a quest as the batch
\* call returns it
_convert_indices_to_ids(location_ids, npc_ids, item_ids, quest, quest_number) ==
    LET slug == slugify(quest.name)
        id == IF slug # "" THEN "quest_" \o ToString(quest_number) \o "_" \o slug
              ELSE "quest_" \o ToString(quest_number)
        giver == IF AtIndex(npc_ids, quest.giver_npc_index) # None
                 THEN AtIndex(npc_ids, quest.giver_npc_index)
                 ELSE IF npc_ids # <<>> THEN npc_ids[1] ELSE None
        tbl(key) == CASE key = "location_index" -> location_ids
                      [] key = "npc_index"      -> npc_ids
                      [] key = "item_index"     -> item_ids
                      [] OTHER                  -> <<>>
    IN [id |-> id, giver_npc_id |-> giver,
        language_level |-> quest.language_level,
        target_vocabulary |-> quest.target_vocabulary,
        tasks |-> [i \in DOMAIN quest.tasks |->
                     [id |-> id \o "_task_" \o ToString(i),
                      order |-> quest.tasks[i].order,
                      completion_type |-> quest.tasks[i].completion_type,
                      target_id |-> AtIndex(tbl(quest.tasks[i].index_key),
                                            quest.tasks[i].index)]]]

\* the loop over raw_quests that converts and counts
ConvertAll(raw_quests, quest_counter) ==
    [i \in DOMAIN raw_quests |->
        _convert_indices_to_ids(IdsOf(sample_locations), IdsOf(sample_npcs),
                                IdsOf(sample_items), raw_quests[i],
                                quest_counter + i - 1)]

\* the split of the converted quests into batch_valid and batch_invalid; and
\* a split that keeps every quest
MutantBatchValidKeepsAll(converted_quests, invalid_quest_ids) == converted_quests

BatchValid(converted_quests, invalid_quest_ids) ==
    SelectSeq(converted_quests, LAMBDA quest : quest.id \notin invalid_quest_ids)

BatchInvalid(converted_quests, invalid_quest_ids) ==
    SelectSeq(converted_quests, LAMBDA quest : quest.id \in invalid_quest_ids)

\* remaining_needed; and the same with the accepted quests left out
MutantRemainingNeededIgnoresAccepted(all_valid_quests) == MIN_VALID_QUESTS

RemainingNeeded(all_valid_quests) == MIN_VALID_QUESTS - Len(all_valid_quests)

\* final_data
FinalData(g, attempt) ==
    [quest_lines |-> <<>>,
     quests |-> g.all_valid_quests,
     _generation_summary |->
        [total_attempts |-> IF attempt + 1 < MAX_RETRIES THEN attempt + 1
                            ELSE MAX_RETRIES,
         total_generated |-> g.total_generated,
         total_valid |-> Len(g.all_valid_quests),
         total_invalid |-> g.total_invalid,
         target_minimum |-> MIN_VALID_QUESTS,
         target_met |-> Len(g.all_valid_quests) >= MIN_VALID_QUESTS]]

\* ---- what the batch call may return
SmallBatch == 4

RawTask(completion_type, index_key, index, order) ==
    [completion_type |-> completion_type, index_key |-> index_key,
     index |-> index, order |-> order]

\* talk to pedro, then pick the herbs where he is: passes
RawHerbs ==
    [name |-> <<"G", "e", "t", " ", "H", "e", "r", "b", "s", "!">>,
     giver_npc_index |-> 0, language_level |-> "A0", target_vocabulary |-> <<>>,
     tasks |-> <<RawTask("talked_to", "npc_index", 3, 1),
                 RawTask("has_item", "item_index", 2, 2)>>]

\* go to where the giver stands: an error
RawStay ==
    [name |-> <<"S", "t", "a", "y">>,
     giver_npc_index |-> 0, language_level |-> "A0", target_vocabulary |-> <<>>,
     tasks |-> <<RawTask("at_location", "location_index", 0, 1)>>]

\* no giver index, a first task that talks to the giver, an item index out
\* of range: a warning
RawTalk ==
    [name |-> <<"?">>,
     giver_npc_index |-> -1, language_level |-> "A0", target_vocabulary |-> <<>>,
     tasks |-> <<RawTask("talked_to", "npc_index", 0, 1),
                 RawTask("at_location", "location_index", 1, 2),
                 RawTask("has_item", "item_index", 99, 3)>>]

RawBatch(kind, size) ==
    [i \in 1..size |->
        IF kind = "good" THEN RawHerbs
        ELSE IF i % 3 = 1 THEN RawHerbs
        ELSE IF i % 3 = 2 THEN RawStay ELSE RawTalk]

RawBatches ==
    {RawBatch(kind, size) : kind \in {"good", "mixed"},
                            size \in {0, SmallBatch, QUESTS_PER_BATCH}}

\* ---- generate, from the first line of the loop to the return
InitGenerate ==
    /\ validator = SampleValidator
    /\ call = NoCall
    /\ result = <<>>
    /\ gen = [pc |-> "loop", i |-> 0, attempt |-> -1,
              all_valid_quests |-> <<>>, total_generated |-> 0,
              total_invalid |-> 0, quest_counter |-> 1,
              converted_quests |-> <<>>, validation_issues |-> <<>>,
              final_data |-> None]

\* one pass of the loop body with a batch that holds quests
GenerateAttempt(raw_quests) ==
    /\ gen.pc = "loop"
    /\ gen.i < MAX_RETRIES
    /\ RemainingNeeded(gen.all_valid_quests) > 0
    /\ raw_quests # <<>>
    /\ \E converted_quests \in {ConvertAll(raw_quests, gen.quest_counter)} :
       \E validation_issues \in {validate_all(validator, converted_quests)} :
       \E invalid_quest_ids \in {get_invalid_quest_ids(validation_issues)} :
       \E batch_valid \in {BatchValid(converted_quests, invalid_quest_ids)} :
       \E batch_invalid \in {BatchInvalid(converted_quests, invalid_quest_ids)} :
          /\ gen' = [gen EXCEPT
                       !.i = gen.i + 1,
                       !.attempt = gen.i,
                       !.quest_counter = gen.quest_counter + Len(converted_quests),
                       !.converted_quests = converted_quests,
                       !.validation_issues = validation_issues,
                       !.all_valid_quests = gen.all_valid_quests \o batch_valid,
                       !.total_generated = gen.total_generated + Len(converted_quests),
                       !.total_invalid = gen.total_invalid + Len(batch_invalid)]
          /\ validator' = AfterValidateAll(validator, converted_quests,
                                           Len(converted_quests))
    /\ UNCHANGED <<call, result>>

\* one pass of the loop body with a batch that holds no quest: continue
GenerateEmptyBatch ==
    /\ gen.pc = "loop"
    /\ gen.i < MAX_RETRIES
    /\ RemainingNeeded(gen.all_valid_quests) > 0
    /\ gen' = [gen EXCEPT !.i = gen.i + 1, !.attempt = gen.i]
    /\ UNCHANGED <<validator, call, result>>

\* remaining_needed <= 0: break, build final_data, return it
GenerateBreak ==
    /\ gen.pc = "loop"
    /\ gen.i < MAX_RETRIES
    /\ RemainingNeeded(gen.all_valid_quests) <= 0
    /\ gen' = [gen EXCEPT !.pc = "returned", !.attempt = gen.i,
                          !.final_data = FinalData(gen, gen.i)]
    /\ UNCHANGED <<validator, call, result>>

\* range(MAX_RETRIES) is used up: build final_data, return it
GenerateExhausted ==
    /\ gen.pc = "loop"
    /\ gen.i = MAX_RETRIES
    /\ gen' = [gen EXCEPT !.pc = "returned",
                          !.final_data = FinalData(gen, gen.attempt)]
    /\ UNCHANGED <<validator, call, result>>

NextGenerate ==
    \/ /\ gen.pc = "loop"
       /\ \E raw_quests \in RawBatches : GenerateAttempt(raw_quests)
    \/ GenerateEmptyBatch
    \/ GenerateBreak
    \/ GenerateExhausted

SpecGenerate == InitGenerate /\ [][NextGenerate]_vars

\* The code runs on until it returns, the batch call taken to return.  Before
\* the return one of the three steps that do not depend on what the batch
\* holds is always enabled, and every loop step raises gen.i, which never
\* passes MAX_RETRIES; so weak fairness of these three steps admits the same
\* behaviours as weak fairness of NextGenerate.
SpecGenerateFair ==
    SpecGenerate
    /\ WF_vars(GenerateEmptyBatch \/ GenerateBreak \/ GenerateExhausted)

(***************************************************************************)
(* The rules of the quest validator (C6 - C10)                             *)
(***************************************************************************)

\* Task j comes before task i in task order: a smaller order value, or the
\* same value and an earlier declaration.
ComesBefore(tasks, j, i) ==
    \/ tasks[j].order < tasks[i].order
    \/ tasks[j].order = tasks[i].order /\ j < i

\* the tasks in task order
InTaskOrder(tasks) ==
    [k \in DOMAIN tasks |->
        tasks[CHOOSE i \in DOMAIN tasks :
                 Cardinality({j \in DOMAIN tasks : ComesBefore(tasks, j, i)}) = k - 1]]

\* the severities of the issues the last call reported on a task
SeveritiesOn(task_id) ==
    {result[i].severity : i \in {j \in DOMAIN result : result[j].task_id = task_id}}

ReportedSeverities == {result[i].severity : i \in DOMAIN result}

NumErrors == Cardinality({i \in DOMAIN result : result[i].severity = ERROR})

\* the location of the quest's giver, None when the giver or the location
\* is not known
GiverLocation(quest) ==
    IF quest.giver_npc_id \in DOMAIN validator.npc_locations
    THEN validator.npc_locations[quest.giver_npc_id] ELSE None

NpcLocation(npc) ==
    IF npc \in DOMAIN validator.npc_locations
    THEN validator.npc_locations[npc] ELSE None

ItemLocation(item) ==
    IF item \in DOMAIN validator.items
    THEN validator.items[item].location_id ELSE None

\* ---- C1
DistinctIds(quests) ==
    \A i, j \in DOMAIN quests : i # j => quests[i].id # quests[j].id

\* the severities validate_quest reports on one quest
QuestSeverities(quest) ==
    {issue.severity : issue \in Range(validate_quest(validator, quest))}

\* C1: for a batch of quests with pairwise distinct ids,
\* get_invalid_quest_ids applied to what validate_all returned is exactly the
\* set of ids of the quests that got at least one ERROR: a quest is rejected
\* iff it has an ERROR, so warnings and infos alone never reject it.
Thm_C1_RejectedIffError ==
    (call.op = "get_invalid_quest_ids" /\ DistinctIds(call.quests)) =>
        /\ result = {call.issues[i].quest_id :
                        i \in {j \in DOMAIN call.issues :
                                  call.issues[j].severity = ERROR}}
        /\ result \subseteq {call.quests[i].id : i \in DOMAIN call.quests}
        /\ \A i \in DOMAIN call.quests :
              (call.quests[i].id \in result)
                 <=> (ERROR \in QuestSeverities(call.quests[i]))

\* a batch of a quest that drew only a warning and was kept and a quest
\* that drew an error and was rejected
Wit_C1_WarningKeptErrorRejected ==
    /\ call.op = "get_invalid_quest_ids"
    /\ Len(call.quests) = 2
    /\ DistinctIds(call.quests)
    /\ WARNING \in QuestSeverities(call.quests[1])
    /\ ERROR \notin QuestSeverities(call.quests[1])
    /\ ERROR \in QuestSeverities(call.quests[2])
    /\ result = {call.quests[2].id}

\* ---- C2
HasErrorIn(issues, quest_id) ==
    \E i \in DOMAIN issues :
        issues[i].quest_id = quest_id /\ issues[i].severity = ERROR

IdsIn(quests) == {quests[i].id : i \in DOMAIN quests}

Returned == gen.pc = "returned"

LocationRequiredBy(task) ==
    CASE task.completion_type = "at_location" -> task.target_id
      [] task.completion_type = "talked_to"   -> NpcLocation(task.target_id)
      [] task.completion_type = "has_item"    -> ItemLocation(task.target_id)
      [] OTHER -> None

BakeryQuest(level) ==
    [id |-> "q1", giver_npc_id |-> "maria", language_level |-> level,
     target_vocabulary |-> <<>>,
     tasks |-> <<[id |-> "t1", order |-> 1, completion_type |-> "at_location",
                  target_id |-> "bakery"]>>]

\* C6: the rule reports an ERROR for the giver iff the giver's location is
\* outside the set reachable from the starting location at the quest's
\* level, and an ERROR for a task iff the location the task requires is
\* outside that set; on the chain market - forest - garden - bakery the
\* level-A0 quest that targets the bakery gets exactly one ERROR and the
\* same quest at level A1 gets none.
Thm_C6_AccessibilityErrors ==
    call.op = "_rule_location_path_accessibility" =>
        LET quest == call.quest
            reachable == _get_reachable_locations_at_level(
                             validator, QuestLevel(quest), None)
        IN /\ ReportedSeverities \subseteq {ERROR}
           /\ (ERROR \in SeveritiesOn(None))
                 <=> (GiverLocation(quest) # None
                      /\ GiverLocation(quest) \notin reachable)
           /\ \A i \in DOMAIN quest.tasks :
                 (ERROR \in SeveritiesOn(quest.tasks[i].id))
                    <=> (LocationRequiredBy(quest.tasks[i]) # None
                         /\ LocationRequiredBy(quest.tasks[i]) \notin reachable)
           /\ (validator = ChainValidator /\ quest = BakeryQuest("A0"))
                 => NumErrors = 1
           /\ (validator = ChainValidator /\ quest = BakeryQuest("A1"))
                 => NumErrors = 0

\* the level-A0 bakery quest on the chain, with its one ERROR
Wit_C6_BakeryAtA0 ==
    /\ call.op = "_rule_location_path_accessibility"
    /\ validator = ChainValidator
    /\ call.quest = BakeryQuest("A0")
    /\ NumErrors = 1
    /\ SeveritiesOn("t1") = {ERROR}

\* ---- C7
\* C7: for a quest whose giver has a known location the rule reports an
\* ERROR iff the first task in task order is at_location at the giver's
\* location, a WARNING iff that first task is talked_to the giver, and what
\* it reports is what it reports for the quest cut down to its first task.
Thm_C7_FirstTaskOnly ==
    (call.op = "_rule_no_auto_complete_first_task"
     /\ GiverLocation(call.quest) # None) =>
        LET quest == call.quest
            tasks == quest.tasks
        IN IF tasks = <<>> THEN result = <<>>
           ELSE LET first == InTaskOrder(tasks)[1]
                IN /\ (ERROR \in ReportedSeverities)
                        <=> (first.completion_type = "at_location"
                             /\ first.target_id = GiverLocation(quest))
                   /\ (WARNING \in ReportedSeverities)
                        <=> (first.completion_type = "talked_to"
                             /\ first.target_id = quest.giver_npc_id)
                   /\ ReportedSeverities \subseteq {ERROR, WARNING}
                   /\ \A i \in DOMAIN result : result[i].task_id = first.id
                   /\ result = _rule_no_auto_complete_first_task(
                                   validator, [quest EXCEPT !.tasks = <<first>>])

\* an ERROR on a task that is first by order but was declared second
Wit_C7_SecondDeclaredIsFirst ==
    /\ call.op = "_rule_no_auto_complete_first_task"
    /\ GiverLocation(call.quest) # None
    /\ Len(call.quest.tasks) >= 2
    /\ call.quest.tasks[2].order < call.quest.tasks[1].order
    /\ SeveritiesOn(call.quest.tasks[2].id) = {ERROR}

\* ---- C8
\* the implied current location when the k-th task in task order is reached
RECURSIVE ImpliedBefore(_, _, _)
ImpliedBefore(quest, ordered, k) ==
    IF k = 1 THEN GiverLocation(quest)
    ELSE LET prev == ordered[k - 1]
         IN IF prev.completion_type = "at_location" THEN prev.target_id
            ELSE IF prev.completion_type = "talked_to"
                    /\ NpcLocation(prev.target_id) # None
            THEN NpcLocation(prev.target_id)
            ELSE ImpliedBefore(quest, ordered, k - 1)

HasExistingItem(task) ==
    task.completion_type = "has_item" /\ task.target_id \in DOMAIN validator.items

\* C8 as stated, at the points of the scan where a current location is
\* implied: an ERROR for a has_item task on an existing item iff the item's
\* location differs from the implied current location at that point.
Cex_C8_ErrorIffLocationsDiffer ==
    call.op = "_rule_item_at_correct_location" =>
        LET ordered == InTaskOrder(call.quest.tasks)
        IN \A k \in DOMAIN ordered :
              (HasExistingItem(ordered[k])
               /\ ImpliedBefore(call.quest, ordered, k) # None) =>
                 ((ERROR \in SeveritiesOn(ordered[k].id))
                    <=> ItemLocation(ordered[k].target_id)
                           # ImpliedBefore(call.quest, ordered, k))

\* C8, amended: an ERROR for a has_item task on an existing item iff an
\* implied current location is known at that point, the item has a location,
\* and the two differ; the implied location starts at the giver's location
\* and is replaced by each at_location target and by the location of each
\* talked_to NPC that has one, and by nothing else; no other task gets an
\* issue.
Thm_C8_ErrorIffKnownLocationsDiffer ==
    call.op = "_rule_item_at_correct_location" =>
        LET ordered == InTaskOrder(call.quest.tasks)
        IN /\ \A k \in DOMAIN ordered :
                 IF HasExistingItem(ordered[k])
                 THEN (ERROR \in SeveritiesOn(ordered[k].id))
                        <=> (/\ ImpliedBefore(call.quest, ordered, k) # None
                             /\ ItemLocation(ordered[k].target_id) # None
                             /\ ItemLocation(ordered[k].target_id)
                                   # ImpliedBefore(call.quest, ordered, k))
                 ELSE SeveritiesOn(ordered[k].id) = {}
           /\ ReportedSeverities \subseteq {ERROR}

\* an item asked for right after talking to an NPC who is somewhere else
Wit_C8_ItemNotWhereNpcIs ==
    /\ call.op = "_rule_item_at_correct_location"
    /\ Len(call.quest.tasks) = 2
    /\ LET ordered == InTaskOrder(call.quest.tasks)
       IN /\ ordered[1].completion_type = "talked_to"
          /\ ordered[1].target_id = "rosa"
          /\ ordered[2].completion_type = "has_item"
          /\ ordered[2].target_id = "apple"
          /\ SeveritiesOn(ordered[2].id) = {ERROR}

\* ---- C9
AcquisitionKind(item) == validator.items[item].acquisition_type

\* C9: a gave_item task for item X gets no issue when a has_item or
\* received_item task for X comes before it in task order; otherwise it gets
\* an ERROR when X does not exist, a WARNING and no ERROR when X is of kind
\* gather, purchase or find, and an ERROR when X is of kind receive.
Thm_C9_ItemFlow ==
    call.op = "_rule_logical_item_flow" =>
        LET ordered == InTaskOrder(call.quest.tasks)
        IN \A k \in DOMAIN ordered :
              LET task == ordered[k]
                  x == task.target_id
                  obtained == \E j \in 1..(k - 1) :
                                 /\ ordered[j].completion_type
                                       \in {"has_item", "received_item"}
                                 /\ ordered[j].target_id = x
              IN IF task.completion_type # "gave_item" \/ obtained
                 THEN SeveritiesOn(task.id) = {}
                 ELSE IF x \notin DOMAIN validator.items
                 THEN SeveritiesOn(task.id) = {ERROR}
                 ELSE IF AcquisitionKind(x) \in {"gather", "purchase", "find"}
                 THEN SeveritiesOn(task.id) = {WARNING}
                 ELSE AcquisitionKind(x) = "receive"
                      /\ SeveritiesOn(task.id) = {ERROR}

\* the letter is given away first and obtained only afterwards, though the
\* obtaining task was declared first
Wit_C9_ObtainedTooLate ==
    /\ call.op = "_rule_logical_item_flow"
    /\ Len(call.quest.tasks) = 2
    /\ call.quest.tasks[1].completion_type = "has_item"
    /\ call.quest.tasks[1].target_id = "letter"
    /\ call.quest.tasks[2].completion_type = "gave_item"
    /\ call.quest.tasks[2].target_id = "letter"
    /\ call.quest.tasks[2].order < call.quest.tasks[1].order
    /\ SeveritiesOn("t2") = {ERROR}

\* ---- C10
\* the NPC most recently talked to when the k-th task in task order is
\* reached, None when there is none
RECURSIVE TalkedToBefore(_, _)
TalkedToBefore(ordered, k) ==
    IF k = 1 THEN None
    ELSE IF ordered[k - 1].completion_type = "talked_to"
    THEN ordered[k - 1].target_id
    ELSE TalkedToBefore(ordered, k - 1)

DistinctOrders(tasks) ==
    \A i, j \in DOMAIN tasks : i # j => tasks[i].order # tasks[j].order

\* the quest opens by talking to an NPC, so that every later item has an NPC
\* it is received from or given to
OpensWithTalk(tasks) ==
    /\ tasks # <<>>
    /\ InTaskOrder(tasks)[1].completion_type = "talked_to"
    /\ InTaskOrder(tasks)[1].target_id # None

\* C10 as stated, for quests whose order values are pairwise distinct and
\* that open by talking to an NPC: an ERROR exactly when a received_item task
\* for X is followed, as the next task in task order, by a gave_item task for
\* X given to the NPC the item came from.
Cex_C10_ErrorIffImmediateReturn ==
    (call.op = "_rule_no_immediate_item_return"
     /\ DistinctOrders(call.quest.tasks)
     /\ OpensWithTalk(call.quest.tasks)) =>
        LET ordered == InTaskOrder(call.quest.tasks)
        IN \A k \in DOMAIN ordered :
              (ERROR \in SeveritiesOn(ordered[k].id))
                 <=> (/\ k > 1
                      /\ ordered[k].completion_type = "gave_item"
                      /\ ordered[k - 1].completion_type = "received_item"
                      /\ ordered[k - 1].target_id = ordered[k].target_id
                      /\ TalkedToBefore(ordered, k - 1) = TalkedToBefore(ordered, k))

(***************************************************************************)
(* validate_quest on quests with unknown and with missing references       *)
(* (C11, C12)                                                              *)
(***************************************************************************)
\* one task of every completion kind with a target the world knows, with a
\* target it does not know, and with no target
ReferenceSteps ==
    {Step("at_location", t, 1) : t \in {"forest", "atlantis", None}}
    \cup {Step("talked_to", t, 1) : t \in {"pedro", "ghost", None}}
    \cup {Step("has_item", t, 1) : t \in {"herbs", "phantom", None}}
    \cup {Step("gave_item", t, 1) : t \in {"phantom", None}}
    \cup {Step("received_item", t, 1) : t \in {"phantom", None}}

ReferenceGivers == {"maria", "ghost", None}

\* issues = validator.validate_quest(quest)
CallValidateQuest(quest) ==
    /\ call' = [op |-> "validate_quest", quest |-> quest]
    /\ result' = validate_quest(validator, quest)
    /\ validator' = AfterValidateQuest(validator, quest)
    /\ UNCHANGED gen

NextValidateQuest ==
    /\ call.op = "none"
    /\ \E giver \in ReferenceGivers, n \in 0..MaxTasks :
       \E steps \in [1..n -> ReferenceSteps] :
          CallValidateQuest(QuestOf("q1", giver, "A0", steps))

SpecValidateQuest == InitSample /\ [][NextValidateQuest]_vars

\* the last call reported an ERROR of the rule on the task
ErrorFrom(rule, task_id) ==
    \E i \in DOMAIN result :
        /\ result[i].severity = ERROR
        /\ result[i].rule = rule
        /\ result[i].task_id = task_id

\* the task's target is an existing entity of the kind the task asks for
Resolves(task) ==
    CASE task.completion_type = "at_location"
            -> task.target_id \in DOMAIN validator.locations
      [] task.completion_type = "talked_to"
            -> task.target_id \in DOMAIN validator.npcs
      [] task.completion_type \in {"has_item", "gave_item", "received_item"}
            -> task.target_id \in DOMAIN validator.items
      [] OTHER -> TRUE

\* ---- C11
\* C11 as stated: every at_location, talked_to, has_item, gave_item or
\* received_item task whose target does not resolve to an existing location,
\* NPC or item gets an ERROR from valid_references, whatever the other rules
\* report; a has_item task naming an item id the world does not know gets an
\* ERROR from item_location_consistency and one from valid_references.
Cex_C11_UnresolvedTargetIsError ==
    call.op = "validate_quest" =>
        \A i \in DOMAIN call.quest.tasks :
           LET task == call.quest.tasks[i]
           IN /\ ~Resolves(task) => ErrorFrom("valid_references", task.id)
              /\ (task.completion_type = "has_item"
                  /\ task.target_id # None
                  /\ task.target_id \notin DOMAIN validator.items)
                    => /\ ErrorFrom("item_location_consistency", task.id)
                       /\ ErrorFrom("valid_references", task.id)

\* ---- C12
HasError == \E i \in DOMAIN result : result[i].severity = ERROR

\* C12 as stated: a quest for which validate_quest returns no ERROR has a
\* giver id that names an existing NPC.
Cex_C12_AcceptedQuestHasKnownGiver ==
    (call.op = "validate_quest" /\ ~HasError) =>
        call.quest.giver_npc_id \in DOMAIN validator.npcs

(***************************************************************************)
(* _rule_npc_diversity on quests of up to MaxTasks + 1 tasks (C13)         *)
(***************************************************************************)
\* one task more than the other rules get: a WARNING without an ERROR needs
\* three interactions with one NPC and a fourth with another
MaxInteractions == MaxTasks + 1

DiversitySteps ==
    {Step("talked_to", "maria", 1), Step("talked_to", "juan", 1),
     Step("talked_to", "juan", 0), Step("talked_to", None, 1),
     Step("gave_item", "apple", 1), Step("received_item", "apple", 1),
     Step("at_location", "forest", 1)}

DiversityGivers == {"maria"}

NextNpcDiversity ==
    /\ call.op = "none"
    /\ \E giver \in DiversityGivers, n \in 0..MaxInteractions :
       \E steps \in [1..n -> DiversitySteps] :
       \E quest \in {QuestOf("q1", giver, "A0", steps)} :
          CallRule("_rule_npc_diversity", quest,
                   _rule_npc_diversity(validator, quest))

SpecNpcDiversity == InitSample /\ [][NextNpcDiversity]_vars

\* the positions, in task order, of the tasks that are NPC interactions: the
\* talked_to tasks, and the gave_item and received_item tasks that follow a
\* talked_to task whose NPC they are attributed to
InteractionPositions(ordered) ==
    {k \in DOMAIN ordered :
        \/ ordered[k].completion_type = "talked_to"
        \/ /\ ordered[k].completion_type \in {"gave_item", "received_item"}
           /\ TalkedToBefore(ordered, k) # None}

\* the NPC of the interaction at position k
InteractionNpc(ordered, k) ==
    IF ordered[k].completion_type = "talked_to"
    THEN ordered[k].target_id
    ELSE TalkedToBefore(ordered, k)

\* the NPC-interaction sequence of the quest of the last call
InteractionSequence ==
    LET ordered == InTaskOrder(call.quest.tasks)
        pos == InteractionPositions(ordered)
        at(n) == CHOOSE k \in pos : Cardinality({j \in pos : j < k}) = n - 1
    IN [n \in 1..Cardinality(pos) |-> InteractionNpc(ordered, at(n))]

ThreeInARow(seq) ==
    \E n \in DOMAIN seq :
        /\ n + 2 \in DOMAIN seq
        /\ seq[n] # None
        /\ seq[n + 1] = seq[n]
        /\ seq[n + 2] = seq[n]

AllOneNpc(seq) ==
    /\ Len(seq) >= 3
    /\ seq[1] # None
    /\ \A n \in DOMAIN seq : seq[n] = seq[1]

\* ---- C13
\* C13 as stated: _rule_npc_diversity yields a WARNING iff some NPC occupies
\* 3 or more consecutive entries of the NPC-interaction sequence, an ERROR
\* iff the sequence has at least 3 entries and all of them are the same NPC,
\* and no issue at all for a quest with fewer than 3 NPC interactions.
Cex_C13_DiversityIffRepeats ==
    call.op = "_rule_npc_diversity" =>
        LET seq == InteractionSequence
        IN /\ (WARNING \in ReportedSeverities) <=> ThreeInARow(seq)
           /\ (ERROR \in ReportedSeverities) <=> AllOneNpc(seq)
           /\ Len(seq) < 3 => result = <<>>

(***************************************************************************)
(* A session of reset_pattern_tracking and validate_quest calls on one     *)
(* validator (C14)                                                         *)
(***************************************************************************)
MaxCalls == 5

\* two quests with the same task pattern and one with another
SessionBodies ==
    { [giver |-> "maria", steps |-> <<Step("talked_to", "pedro", 1),
                                      Step("has_item", "herbs", 2)>>],
      [giver |-> "pedro", steps |-> <<Step("talked_to", "maria", 1),
                                      Step("has_item", "apple", 2)>>],
      [giver |-> "maria", steps |-> <<Step("at_location", "market", 1)>>] }

\* the calls made so far, each with what it returned
CallLog == IF call.op = "none" THEN <<>> ELSE call.log

\* validator.reset_pattern_tracking()
SessionReset ==
    /\ Len(CallLog) < MaxCalls
    /\ call' = [op |-> "session",
                log |-> Append(CallLog, [op |-> "reset_pattern_tracking"])]
    /\ validator' = reset_pattern_tracking(validator)
    /\ result' = <<>>
    /\ UNCHANGED gen

\* issues = validator.validate_quest(quest)
SessionValidateQuest(quest) ==
    /\ Len(CallLog) < MaxCalls
    /\ \E issues \in {validate_quest(validator, quest)} :
          /\ call' = [op |-> "session",
                      log |-> Append(CallLog, [op |-> "validate_quest",
                                               quest |-> quest,
                                               issues |-> issues])]
          /\ result' = issues
    /\ validator' = AfterValidateQuest(validator, quest)
    /\ UNCHANGED gen

NextSession ==
    \/ SessionReset
    \/ /\ Len(CallLog) < MaxCalls
       /\ \E body \in SessionBodies :
             SessionValidateQuest(QuestOf("q1", body.giver, "A0", body.steps))

SpecSession == InitSample /\ [][NextSession]_vars

\* the rules by name, in the order validate_quest runs them
RuleNames ==
    <<"no_auto_complete_first_task", "npc_diversity",
      "item_location_consistency", "item_at_correct_location",
      "logical_item_flow", "no_immediate_item_return", "valid_references",
      "valid_quest_giver", "logical_task_order", "language_level_consistency",
      "vocabulary_progression", "no_duplicate_structures",
      "location_path_accessibility", "item_actually_at_location">>

RuleIssues(name, self, quest) ==
    CASE name = "no_auto_complete_first_task"
            -> _rule_no_auto_complete_first_task(self, quest)
      [] name = "npc_diversity" -> _rule_npc_diversity(self, quest)
      [] name = "item_location_consistency"
            -> _rule_item_location_consistency(self, quest)
      [] name = "item_at_correct_location"
            -> _rule_item_at_correct_location(self, quest)
      [] name = "logical_item_flow" -> _rule_logical_item_flow(self, quest)
      [] name = "no_immediate_item_return"
            -> _rule_no_immediate_item_return(self, quest)
      [] name = "valid_references" -> _rule_valid_references(self, quest)
      [] name = "valid_quest_giver" -> _rule_valid_quest_giver(self, quest)
      [] name = "logical_task_order" -> _rule_logical_task_order(self, quest)
      [] name = "language_level_consistency"
            -> _rule_language_level_consistency(self, quest)
      [] name = "vocabulary_progression"
            -> _rule_vocabulary_progression(self, quest)
      [] name = "no_duplicate_structures"
            -> _rule_no_duplicate_structures(self, quest)
      [] name = "location_path_accessibility"
            -> _rule_location_path_accessibility(self, quest)
      [] name = "item_actually_at_location"
            -> _rule_item_actually_at_location(self, quest)

\* the issues of the rules run in the given order, each rule on the validator
\* as the rules before it left it
RECURSIVE RunRules(_, _, _)
RunRules(order, self, quest) ==
    IF order = <<>> THEN <<>>
    ELSE LET name == Head(order)
             after == IF name = "no_duplicate_structures"
                      THEN [self EXCEPT !.seen_task_patterns = SeenAfter(self, quest)]
                      ELSE self
         IN RuleIssues(name, self, quest) \o RunRules(Tail(order), after, quest)

Reverse(seq) == [i \in DOMAIN seq |-> seq[Len(seq) + 1 - i]]

\* the sequence with its element at position from moved to position to
Moved(seq, from, to) ==
    LET rest == [i \in 1..(Len(seq) - 1) |-> IF i < from THEN seq[i] ELSE seq[i + 1]]
    IN [i \in DOMAIN seq |->
          IF i < to THEN rest[i] ELSE IF i = to THEN seq[from] ELSE rest[i - 1]]

\* the source order, its reverse, and every order that moves one rule to
\* the front or to the back
RuleOrders ==
    {RuleNames, Reverse(RuleNames)}
    \cup {Moved(RuleNames, k, 1) : k \in DOMAIN RuleNames}
    \cup {Moved(RuleNames, k, Len(RuleNames)) : k \in DOMAIN RuleNames}

\* the positions in the log of the validate_quest calls made right after a
\* reset_pattern_tracking call
FreshCalls ==
    {i \in DOMAIN CallLog :
        /\ i > 1
        /\ CallLog[i].op = "validate_quest"
        /\ CallLog[i - 1].op = "reset_pattern_tracking"}

\* ---- C14
\* C14: calling reset_pattern_tracking and then validate_quest on the same
\* quest, twice in a row or at any two points of a session, returns the same
\* set of issues both times, and that set is the one the rules yield on the
\* reset validator in any of the orders of RuleOrders.
Thm_C14_IdempotentAndOrderIndependent ==
    \A i \in FreshCalls :
        /\ \A j \in FreshCalls :
              CallLog[j].quest = CallLog[i].quest
                 => Range(CallLog[j].issues) = Range(CallLog[i].issues)
        /\ \A order \in RuleOrders :
              Range(RunRules(order, reset_pattern_tracking(validator),
                             CallLog[i].quest))
                 = Range(CallLog[i].issues)

\* a quest validated, reported as a duplicate of itself, then validated
\* after a reset twice in a row with a non-empty issue list that has no
\* duplicate-structure issue
Wit_C14_ResetValidateTwice ==
    /\ Len(CallLog) = 5
    /\ CallLog[1].op = "validate_quest"
    /\ CallLog[2].op = "reset_pattern_tracking"
    /\ CallLog[3].op = "validate_quest"
    /\ CallLog[4].op = "reset_pattern_tracking"
    /\ CallLog[5].op = "validate_quest"
    /\ CallLog[3].quest = CallLog[5].quest
    /\ CallLog[1].quest # CallLog[3].quest
    /\ TaskPattern(CallLog[1].quest) = TaskPattern(CallLog[3].quest)
    /\ CallLog[5].issues # <<>>

(***************************************************************************)
(* The scope of seen_task_patterns (C15, C16)                              *)
(***************************************************************************)
\* the quest ids for which the issues hold a duplicate-structure INFO
DuplicateReported(issues) ==
    {issues[i].quest_id :
        i \in {j \in DOMAIN issues :
                  /\ issues[j].rule = "no_duplicate_structures"
                  /\ issues[j].severity = INFO}}

\* the ids of the quests of a batch whose pattern is that of a quest
\* earlier in the same batch
DuplicateInBatch(quests) ==
    {quests[k].id :
        k \in {n \in DOMAIN quests :
                  \E j \in 1..(n - 1) : TaskPattern(quests[j]) = TaskPattern(quests[n])}}

ConcurrentBodies == {body \in SessionBodies : body.giver = "maria"}

BatchTags == <<"a", "b">>

ConcurrentBatch(tag, bodies) ==
    BatchOf([i \in DOMAIN bodies |-> tag \o ToString(i)], bodies)

\* the two threads are started, nothing validated yet
ConcurrentStart(shared, batches) ==
    /\ call.op = "none"
    /\ call' = [op |-> "concurrent", shared |-> shared, batches |-> batches,
                done |-> [b \in DOMAIN batches |-> 0],
                issues |-> [b \in DOMAIN batches |-> <<>>],
                own |-> [b \in DOMAIN batches |-> validator]]
    /\ UNCHANGED <<validator, result, gen>>

\* thread b runs the next iteration of its validate_all loop: one
\* validate_quest call on the validator it uses
ConcurrentStep(b) ==
    /\ call.op = "concurrent"
    /\ call.done[b] < Len(call.batches[b])
    /\ LET quest == call.batches[b][call.done[b] + 1]
           self == IF call.shared THEN validator ELSE call.own[b]
       IN \E issues \in {validate_quest(self, quest)} :
             /\ call' = [call EXCEPT
                           !.done[b] = @ + 1,
                           !.issues[b] = @ \o issues,
                           !.own[b] = IF call.shared THEN @
                                      ELSE AfterValidateQuest(self, quest)]
             /\ result' = issues
             /\ validator' = IF call.shared THEN AfterValidateQuest(self, quest)
                             ELSE validator
    /\ UNCHANGED gen

NextConcurrent ==
    \/ /\ call.op = "none"
       /\ \E shared \in BOOLEAN, n1 \in 0..MaxBatch, n2 \in 0..MaxBatch :
          \E bodies1 \in [1..n1 -> ConcurrentBodies],
             bodies2 \in [1..n2 -> ConcurrentBodies] :
             ConcurrentStart(shared, <<ConcurrentBatch(BatchTags[1], bodies1),
                                       ConcurrentBatch(BatchTags[2], bodies2)>>)
    \/ /\ call.op = "concurrent"
       /\ \E b \in DOMAIN BatchTags : ConcurrentStep(b)

SpecConcurrent == InitSample /\ [][NextConcurrent]_vars

BothDone ==
    /\ call.op = "concurrent"
    /\ \A b \in DOMAIN call.batches : call.done[b] = Len(call.batches[b])

\* ---- C16
\* C16 as stated: however the validate_quest calls of two concurrent batches
\* interleave, the duplicate-structure issues reported for each batch are
\* exactly those the batch gets when it is validated alone.
Cex_C16_ConcurrentBatchesIsolated ==
    BothDone =>
        \A b \in DOMAIN call.batches :
            DuplicateReported(call.issues[b])
                = DuplicateReported(validate_all(SampleValidator, call.batches[b]))


(***************************************************************************)
(* Trigger conditions and their string form: models.py                     *)
(*                                                                         *)
(* A Python str is the sequence of its characters.  Enum members are the   *)
(* strings of their values.                                                *)
(***************************************************************************)
\* TriggerType: the values, in the order of the class body
TriggerType ==
    <<"vocab_used_correctly",
      "vocab_recognized",
      "grammar_used_correctly",
      "grammar_pattern_produced",
      "skill_demonstrated",
      "quest_completed",
      "npc_interaction",
      "location_visited",
      "item_acquired",
      "skill_level_reached",
      "total_skill_points">>

\* TriggerOperator: the values, in the order of the class body
TriggerOperator == <<">", ">=", "==", "<=", "<", "!=">>

\* the characters of each TriggerType value
TriggerTypeChars ==
    [vocab_used_correctly |->
        <<"v", "o", "c", "a", "b", "_", "u", "s", "e", "d", "_", "c", "o",
        "r", "r", "e", "c", "t", "l", "y">>,
     vocab_recognized |->
        <<"v", "o", "c", "a", "b", "_", "r", "e", "c", "o", "g", "n", "i",
        "z", "e", "d">>,
     grammar_used_correctly |->
        <<"g", "r", "a", "m", "m", "a", "r", "_", "u", "s", "e", "d", "_",
        "c", "o", "r", "r", "e", "c", "t", "l", "y">>,
     grammar_pattern_produced |->
        <<"g", "r", "a", "m", "m", "a", "r", "_", "p", "a", "t", "t", "e",
        "r", "n", "_", "p", "r", "o", "d", "u", "c", "e", "d">>,
     skill_demonstrated |->
        <<"s", "k", "i", "l", "l", "_", "d", "e", "m", "o", "n", "s", "t",
        "r", "a", "t", "e", "d">>,
     quest_completed |->
        <<"q", "u", "e", "s", "t", "_", "c", "o", "m", "p", "l", "e", "t",
        "e", "d">>,
     npc_interaction |->
        <<"n", "p", "c", "_", "i", "n", "t", "e", "r", "a", "c", "t", "i",
        "o", "n">>,
     location_visited |->
        <<"l", "o", "c", "a", "t", "i", "o", "n", "_", "v", "i", "s", "i",
        "t", "e", "d">>,
     item_acquired |->
        <<"i", "t", "e", "m", "_", "a", "c", "q", "u", "i", "r", "e",
        "d">>,
     skill_level_reached |->
        <<"s", "k", "i", "l", "l", "_", "l", "e", "v", "e", "l", "_", "r",
        "e", "a", "c", "h", "e", "d">>,
     total_skill_points |->
        <<"t", "o", "t", "a", "l", "_", "s", "k", "i", "l", "l", "_", "p",
        "o", "i", "n", "t", "s">>]

\* the characters of each TriggerOperator value
OperatorChars ==
    [op \in Range(TriggerOperator) |->
        CASE op = ">" -> <<">">>
          [] op = ">=" -> <<">", "=">>
          [] op = "==" -> <<"=", "=">>
          [] op = "<=" -> <<"<", "=">>
          [] op = "<" -> <<"<">>
          [] op = "!=" -> <<"!", "=">>]

TriggerCondition(trigger_type, target_id, operator, threshold) ==
    [trigger_type |-> trigger_type, target_id |-> target_id,
     operator |-> operator, threshold |-> threshold]

\* str(n) for n >= 0
RECURSIVE DecimalChars(_)
DecimalChars(n) ==
    IF n < 10 THEN <<Digits[n + 1]>>
    ELSE DecimalChars(n \div 10) \o <<Digits[(n % 10) + 1]>>

\* int(chars) for a string of digits
RECURSIVE IntOfChars(_)
IntOfChars(chars) ==
    IF chars = <<>> THEN 0
    ELSE 10 * IntOfChars(SubSeq(chars, 1, Len(chars) - 1))
         + ((CHOOSE d \in DOMAIN Digits : Digits[d] = chars[Len(chars)]) - 1)

\* f"{trigger_type.value}:{target_id} {operator.value} {threshold}"
to_string(self) ==
    TriggerTypeChars[self.trigger_type] \o <<":">> \o self.target_id
    \o <<" ">> \o OperatorChars[self.operator] \o <<" ">>
    \o DecimalChars(self.threshold)

\* the character classes of the pattern
IsWordChar(c) == c \in Range(Lowers) \cup Range(Uppers) \cup Range(Digits) \cup {"_"}

IsSpaceChar(c) == c \in {" ", "\t", "\n", "\r"}

IsDigitChar(c) == c \in Range(Digits)

\* str.strip()
RECURSIVE strip(_)
strip(chars) ==
    IF chars = <<>> THEN <<>>
    ELSE IF IsSpaceChar(Head(chars)) THEN strip(Tail(chars))
    ELSE IF IsSpaceChar(chars[Len(chars)])
    THEN strip(SubSeq(chars, 1, Len(chars) - 1))
    ELSE chars

\* (>=|<=|==|!=|>|<): the alternatives in the order the pattern tries them
OperatorAlternation == <<">=", "<=", "==", "!=", ">", "<">>

\* the lengths \s* can take at position p
SpaceRuns(s, p) ==
    {w \in 0..(Len(s) + 1 - p) : \A n \in p..(p + w - 1) : IsSpaceChar(s[n])}

\* (\d+)$ matches from position p
DigitsToEnd(s, p) ==
    /\ p <= Len(s)
    /\ \A n \in p..Len(s) : IsDigitChar(s[n])

\* the alternative k matches at position p
OperatorAt(s, p, k) ==
    LET op == OperatorChars[OperatorAlternation[k]]
    IN /\ p + Len(op) - 1 <= Len(s)
       /\ SubSeq(s, p, p + Len(op) - 1) = op

\* the ways \s*(>=|<=|==|!=|>|<)\s*(\d+)$ matches from position p
TailMatches(s, p) ==
    UNION {
      UNION {
        {[w1 |-> w1, k |-> k, w2 |-> w2] :
            w2 \in {w \in SpaceRuns(s, p + w1 + Len(OperatorChars[OperatorAlternation[k]])) :
                      DigitsToEnd(s, p + w1 + Len(OperatorChars[OperatorAlternation[k]]) + w)}} :
        k \in {a \in DOMAIN OperatorAlternation : OperatorAt(s, p + w1, a)}} :
      w1 \in SpaceRuns(s, p)}

\* the ends of (\w+) when it starts the string and ":" follows
GroupOneEnds(s) ==
    {i \in 1..(Len(s) - 1) : s[i + 1] = ":" /\ \A n \in 1..i : IsWordChar(s[n])}

\* the ends of (.+?) when it starts at position p and the rest of the
\* pattern matches after it; "." matches no newline
GroupTwoEnds(s, p) ==
    {j \in p..Len(s) :
        /\ \A n \in p..j : s[n] # "\n"
        /\ TailMatches(s, j + 1) # {}}

Max(S) == CHOOSE x \in S : \A y \in S : y <= x

Min(S) == CHOOSE x \in S : \A y \in S : x <= y

\* a lazy quantifier takes the shortest match that lets the rest match; a
\* greedy one would take the longest
MutantGreedyEnd(ends) == Max(ends)

LazyEnd(ends) == Min(ends)

ValueError == [error |-> "ValueError"]

\* re.match(r"^(\w+):(.+?)\s*(>=|<=|==|!=|>|<)\s*(\d+)$", s.strip()), then
\* the constructor on the four groups
from_string(chars) ==
    LET s == strip(chars)
        ones == {i \in GroupOneEnds(s) : GroupTwoEnds(s, i + 2) # {}}
    IN IF ones = {} THEN ValueError
       ELSE LET i == Max(ones)
                j == LazyEnd(GroupTwoEnds(s, i + 2))
                tails == TailMatches(s, j + 1)
                w1 == Max({t.w1 : t \in tails})
                k == Min({t.k : t \in {u \in tails : u.w1 = w1}})
                w2 == Max({t.w2 : t \in {u \in tails : u.w1 = w1 /\ u.k = k}})
                operator_str == OperatorAlternation[k]
                trigger_type_str == SubSeq(s, 1, i)
                target_id == SubSeq(s, i + 2, j)
                threshold_str ==
                    SubSeq(s, j + 1 + w1 + Len(OperatorChars[operator_str]) + w2, Len(s))
            IN IF trigger_type_str \notin Range(TriggerTypeChars) THEN ValueError
               ELSE TriggerCondition(
                        CHOOSE t \in Range(TriggerType) :
                            TriggerTypeChars[t] = trigger_type_str,
                        target_id, operator_str, IntOfChars(threshold_str))

(***************************************************************************)
(* to_string followed by from_string (C17)                                 *)
(***************************************************************************)
MaxTargetLen == 2

\* characters of [\w\-.]: a letter, a digit, an underscore, a hyphen, a dot
TargetChars == {"a", "7", "_", "-", "."}

RoundTripThresholds == {0, 7, 120}

\* s = condition.to_string()
CallToString(condition) ==
    /\ call.op = "none"
    /\ call' = [op |-> "to_string", condition |-> condition]
    /\ result' = to_string(condition)
    /\ UNCHANGED <<validator, gen>>

\* TriggerCondition.from_string(s)
CallFromString ==
    /\ call.op = "to_string"
    /\ call' = [op |-> "from_string", condition |-> call.condition, s |-> result]
    /\ result' = from_string(result)
    /\ UNCHANGED <<validator, gen>>

NextRoundTrip ==
    \/ /\ call.op = "none"
       /\ \E trigger_type \in Range(TriggerType), operator \in Range(TriggerOperator),
             threshold \in RoundTripThresholds, n \in 1..MaxTargetLen :
          \E target_id \in [1..n -> TargetChars] :
             CallToString(TriggerCondition(trigger_type, target_id, operator, threshold))
    \/ CallFromString

SpecRoundTrip == InitSample /\ [][NextRoundTrip]_vars

\* ---- C17
\* C17: for every TriggerCondition with any trigger type, any of the six
\* operators, a non-negative threshold and a target id made of characters of
\* [\w\-.], from_string(to_string(c)) equals c; the operator is parsed as
\* itself, so >= and <= never come back as > or <.
Thm_C17_RoundTrip ==
    call.op = "from_string" =>
        /\ result = call.condition
        /\ result.operator = call.condition.operator

\* "skill_level_reached:-7 >= 120" parsed back
Wit_C17_GreaterEqualParsed ==
    /\ call.op = "from_string"
    /\ call.condition.operator = ">="
    /\ call.condition.trigger_type = "skill_level_reached"
    /\ call.condition.target_id = <<"-", "7">>
    /\ call.condition.threshold = 120
    /\ result.operator = ">="
    /\ result.threshold = 120


(***************************************************************************)
(* trigger_validator.py: TriggerValidator                                  *)
(*                                                                         *)
(* An Optional[Set[str]] is a record: supplied, and the ids when supplied. *)
(* An input is a model object (form "object", which the constructor has    *)
(* validated) or a dict (form "dict", validated when the method parses     *)
(* it).  A trigger that has a logic field is a CompoundTrigger, any other  *)
(* a TriggerCondition.                                                     *)
(***************************************************************************)
NoIds == [supplied |-> FALSE, ids |-> {}]

Ids(ids) == [supplied |-> TRUE, ids |-> ids]

\* __init__
TriggerValidator(valid_skill_ids, valid_vocab_ids, valid_grammar_ids, valid_quest_ids, valid_npc_ids, valid_location_ids, valid_item_ids) ==
    [valid_skill_ids |-> valid_skill_ids, valid_vocab_ids |-> valid_vocab_ids,
     valid_grammar_ids |-> valid_grammar_ids, valid_quest_ids |-> valid_quest_ids,
     valid_npc_ids |-> valid_npc_ids, valid_location_ids |-> valid_location_ids,
     valid_item_ids |-> valid_item_ids]

TriggerValidationError(field, message, value) ==
    [field |-> field, message |-> message, value |-> value]

TriggerValidationResult(is_valid, errors, warnings) ==
    [is_valid |-> is_valid, errors |-> errors, warnings |-> warnings]

CompoundLogic == <<"AND", "OR">>

IsCompound(trigger) == "logic" \in DOMAIN trigger

\* the errors of the ValidationError that TriggerCondition(**condition)
\* raises, one for each field that fails its type or its constraint
ConditionParseErrors(condition, path) ==
    (IF condition.trigger_type \notin Range(TriggerType)
     THEN <<TriggerValidationError(path \o ".trigger_type", "pydantic", None)>>
     ELSE <<>>)
    \o (IF condition.operator \notin Range(TriggerOperator)
        THEN <<TriggerValidationError(path \o ".operator", "pydantic", None)>>
        ELSE <<>>)
    \o (IF condition.threshold < 0
        THEN <<TriggerValidationError(path \o ".threshold", "pydantic", None)>>
        ELSE <<>>)

\* re.match(r'^[\w\-\.]+$', target_id): "$" also matches before a newline
\* that ends the string
IsIdChar(c) == IsWordChar(c) \/ c \in {"-", "."}

MatchesIdPattern(target_id) ==
    LET body == IF target_id # <<>> /\ target_id[Len(target_id)] = "\n"
                THEN SubSeq(target_id, 1, Len(target_id) - 1)
                ELSE target_id
    IN \/ target_id # <<>> /\ \A n \in DOMAIN target_id : IsIdChar(target_id[n])
       \/ body # <<>> /\ \A n \in DOMAIN body : IsIdChar(body[n])

\* type_to_ids.get(trigger_type)
type_to_ids(self, trigger_type) ==
    CASE trigger_type \in {"vocab_used_correctly", "vocab_recognized"}
            -> self.valid_vocab_ids
      [] trigger_type \in {"grammar_used_correctly", "grammar_pattern_produced"}
            -> self.valid_grammar_ids
      [] trigger_type \in {"skill_demonstrated", "skill_level_reached"}
            -> self.valid_skill_ids
      [] trigger_type = "quest_completed" -> self.valid_quest_ids
      [] trigger_type = "npc_interaction" -> self.valid_npc_ids
      [] trigger_type = "location_visited" -> self.valid_location_ids
      [] trigger_type = "item_acquired" -> self.valid_item_ids
      [] OTHER -> NoIds

\* "if valid_ids is None", and a test that also skips a supplied empty set
MutantSkipsEmptySet(valid_ids) == ~valid_ids.supplied \/ valid_ids.ids = {}

IsNone(valid_ids) == ~valid_ids.supplied

_validate_reference(self, condition, path) ==
    LET valid_ids == type_to_ids(self, condition.trigger_type)
    IN IF IsNone(valid_ids) THEN <<>>
       ELSE IF condition.target_id \notin valid_ids.ids
       THEN <<TriggerValidationError(path \o ".target_id", "not found",
                                     condition.target_id)>>
       ELSE <<>>

_validate_semantics(self, condition, path) ==
    (IF condition.trigger_type = "quest_completed"
        /\ condition.operator \notin {"==", ">="}
     THEN <<path \o ": Quest completion typically uses '==' or '>=' operator">>
     ELSE <<>>)
    \o (IF condition.trigger_type = "quest_completed"
           /\ condition.threshold # 1 /\ condition.operator = "=="
        THEN <<path \o ": Quest completion threshold is typically 1">>
        ELSE <<>>)
    \o (IF condition.trigger_type = "skill_level_reached"
           /\ condition.threshold > 100
        THEN <<path \o ": Skill level threshold exceeds maximum (100)">>
        ELSE <<>>)
    \o (IF condition.trigger_type = "total_skill_points"
           /\ condition.threshold > 1000
        THEN <<path \o ": Total skill points threshold exceeds maximum (1000)">>
        ELSE <<>>)

\* is_valid=len(errors) == 0, and a result that warnings invalidate too
MutantWarningsInvalidate(errors, warnings) ==
    TriggerValidationResult(Len(errors) = 0 /\ Len(warnings) = 0, errors, warnings)

ResultOf(errors, warnings) ==
    TriggerValidationResult(Len(errors) = 0, errors, warnings)

validate_trigger_condition(self, condition, path) ==
    IF condition.form = "dict" /\ ConditionParseErrors(condition, path) # <<>>
    THEN TriggerValidationResult(FALSE, ConditionParseErrors(condition, path), <<>>)
    ELSE LET errors ==
                (IF condition.trigger_type \notin Range(TriggerType)
                 THEN <<TriggerValidationError(path \o ".trigger_type",
                           "Invalid trigger type", condition.trigger_type)>>
                 ELSE <<>>)
                \o (IF condition.operator \notin Range(TriggerOperator)
                    THEN <<TriggerValidationError(path \o ".operator",
                              "Invalid operator", condition.operator)>>
                    ELSE <<>>)
                \o (IF condition.threshold < 0
                    THEN <<TriggerValidationError(path \o ".threshold",
                              "Threshold must be non-negative",
                              <<"-">> \o DecimalChars(0 - condition.threshold))>>
                    ELSE <<>>)
                \o (IF condition.target_id = <<>> \/ strip(condition.target_id) = <<>>
                    THEN <<TriggerValidationError(path \o ".target_id",
                              "Target ID cannot be empty", condition.target_id)>>
                    ELSE <<>>)
                \o (IF condition.target_id # <<>>
                       /\ ~MatchesIdPattern(condition.target_id)
                    THEN <<TriggerValidationError(path \o ".target_id",
                              "Target ID contains invalid characters",
                              condition.target_id)>>
                    ELSE <<>>)
                \o _validate_reference(self, condition, path)
             warnings == _validate_semantics(self, condition, path)
         IN ResultOf(errors, warnings)


(***************************************************************************)
(* validate_trigger_condition on the validators of the tests (C18)         *)
(***************************************************************************)
hola == <<"h", "o", "l", "a">>
adios == <<"a", "d", "i", "o", "s">>
articles == <<"a", "r", "t", "i", "c", "l", "e", "s">>
pragmatic_greetings ==
    <<"p", "r", "a", "g", "m", "a", "t", "i", "c", "_">>
    \o <<"g", "r", "e", "e", "t", "i", "n", "g", "s">>
quest_2_delivery ==
    <<"q", "u", "e", "s", "t", "_", "2", "_", "d", "e", "l", "i", "v", "e", "r", "y">>
nonexistent == <<"n", "o", "n", "e", "x", "i", "s", "t", "e", "n", "t">>
hello_world == <<"h", "e", "l", "l", "o", " ", "w", "o", "r", "l", "d">>

\* TriggerValidator()
validator_no_refs == TriggerValidator(NoIds, NoIds, NoIds, NoIds, NoIds, NoIds, NoIds)

\* the validator fixture: skills, vocabulary, grammar and quests supplied
validator_fixture ==
    TriggerValidator(Ids({pragmatic_greetings}), Ids({hola, adios}),
                     Ids({articles}), Ids({quest_2_delivery}),
                     NoIds, NoIds, NoIds)

\* a validator of a world that has no vocabulary and no quest yet
validator_new_world ==
    TriggerValidator(NoIds, Ids({}), NoIds, Ids({}),
                     Ids({hola}), Ids({articles}), Ids({nonexistent}))

TriggerValidators == {validator_no_refs, validator_fixture, validator_new_world}

InitTrigger ==
    /\ validator \in TriggerValidators
    /\ call = NoCall
    /\ result = <<>>
    /\ gen = GenIdle

ConditionTargets == {hola, articles, nonexistent, hello_world, <<>>}

\* a condition as a model object, or as a dict with the same keys
ConditionInput(form, trigger_type, target_id, operator, threshold) ==
    [form |-> form, trigger_type |-> trigger_type, target_id |-> target_id,
     operator |-> operator, threshold |-> threshold]

\* result = validator.validate_trigger_condition(condition)
CallValidateTriggerCondition(condition) ==
    /\ call.op = "none"
    /\ call' = [op |-> "validate_trigger_condition", condition |-> condition]
    /\ result' = validate_trigger_condition(validator, condition, "condition")
    /\ UNCHANGED <<validator, gen>>

NextTriggerCondition ==
    \/ /\ call.op = "none"
       /\ \E trigger_type \in Range(TriggerType), target_id \in ConditionTargets,
             operator \in {">=", "==", "<"}, threshold \in {1, 5} :
             CallValidateTriggerCondition(
                 ConditionInput("object", trigger_type, target_id, operator, threshold))
    \/ /\ call.op = "none"
       /\ \E trigger_type \in Range(TriggerType) \cup {"vocab_mastered"},
             target_id \in ConditionTargets,
             operator \in {">=", "==", "=>"}, threshold \in {1, 0 - 1} :
             CallValidateTriggerCondition(
                 ConditionInput("dict", trigger_type, target_id, operator, threshold))

SpecTriggerCondition == InitTrigger /\ [][NextTriggerCondition]_vars

\* the namespace the ids of a trigger type belong to; total_skill_points
\* has none
ReferenceNamespace(trigger_type) ==
    CASE trigger_type \in {"vocab_used_correctly", "vocab_recognized"} -> "valid_vocab_ids"
      [] trigger_type \in {"grammar_used_correctly", "grammar_pattern_produced"}
            -> "valid_grammar_ids"
      [] trigger_type \in {"skill_demonstrated", "skill_level_reached"} -> "valid_skill_ids"
      [] trigger_type = "quest_completed" -> "valid_quest_ids"
      [] trigger_type = "npc_interaction" -> "valid_npc_ids"
      [] trigger_type = "location_visited" -> "valid_location_ids"
      [] trigger_type = "item_acquired" -> "valid_item_ids"
      [] OTHER -> None

\* a set was supplied for the namespace of the condition's trigger type and
\* the target id is not in it
DanglingReference(condition) ==
    LET namespace == ReferenceNamespace(condition.trigger_type)
    IN /\ namespace # None
       /\ validator[namespace].supplied
       /\ condition.target_id \notin validator[namespace].ids

ReferenceErrorReported ==
    \E i \in DOMAIN result.errors : result.errors[i].message = "not found"

\* the input is a TriggerCondition, or a dict that parses as one
IsTriggerCondition(condition) ==
    /\ condition.trigger_type \in Range(TriggerType)
    /\ condition.operator \in Range(TriggerOperator)
    /\ condition.threshold >= 0

\* ---- C18
\* C18: for a TriggerCondition, or a dict that parses as one,
\* validate_trigger_condition reports a reference error iff a validation set
\* was supplied for the namespace of the trigger type and the target id is
\* not a member of it, so with no set supplied for the namespace there is no
\* reference error whatever the target id; a dict that does not parse as a
\* TriggerCondition gets the errors of the parse only.
Thm_C18_ReferenceErrorIffDangling ==
    call.op = "validate_trigger_condition" =>
        /\ IsTriggerCondition(call.condition)
              => (ReferenceErrorReported <=> DanglingReference(call.condition))
        /\ ~IsTriggerCondition(call.condition)
              => ~ReferenceErrorReported /\ ~result.is_valid

\* a vocabulary trigger on a word when an empty vocabulary was supplied
Wit_C18_EmptySetSupplied ==
    /\ call.op = "validate_trigger_condition"
    /\ validator = validator_new_world
    /\ call.condition.form = "object"
    /\ call.condition.trigger_type = "vocab_used_correctly"
    /\ call.condition.target_id = hola
    /\ ReferenceErrorReported
    /\ Len(result.errors) = 1


(***************************************************************************)
(* validate_compound_trigger                                               *)
(***************************************************************************)
\* the errors of the ValidationError that CompoundTrigger(**trigger) raises:
\* the logic is no CompoundLogic value, the conditions are fewer than
\* min_length, a child does not parse
RECURSIVE CompoundParseErrors(_, _)
CompoundParseErrors(trigger, path) ==
    (IF trigger.logic \notin Range(CompoundLogic)
     THEN <<TriggerValidationError(path \o ".logic", "pydantic", None)>>
     ELSE <<>>)
    \o (IF trigger.conditions = <<>>
        THEN <<TriggerValidationError(path \o ".conditions", "pydantic", None)>>
        ELSE <<>>)
    \o Flatten([i \in DOMAIN trigger.conditions |->
                  LET cond == trigger.conditions[i]
                      loc == path \o ".conditions." \o ToString(i - 1)
                  IN IF IsCompound(cond) THEN CompoundParseErrors(cond, loc)
                     ELSE ConditionParseErrors(cond, loc)],
               Len(trigger.conditions))

\* "if max_depth <= 0", and a guard that lets one more level through
MutantDepthOffByOne(max_depth) == max_depth < 0

DepthExceeded(max_depth) == max_depth <= 0

RECURSIVE validate_compound_trigger(_, _, _, _)
validate_compound_trigger(self, trigger, path, max_depth) ==
    IF DepthExceeded(max_depth)
    THEN TriggerValidationResult(FALSE,
            <<TriggerValidationError(path,
                "Compound trigger nesting exceeds maximum depth", None)>>, <<>>)
    ELSE IF trigger.form = "dict" /\ CompoundParseErrors(trigger, path) # <<>>
    THEN TriggerValidationResult(FALSE, CompoundParseErrors(trigger, path), <<>>)
    ELSE LET results ==
                [i \in DOMAIN trigger.conditions |->
                    LET cond == trigger.conditions[i]
                        cond_path == path \o ".conditions[" \o ToString(i - 1) \o "]"
                    IN IF IsCompound(cond)
                       THEN validate_compound_trigger(self, cond, cond_path, max_depth - 1)
                       ELSE validate_trigger_condition(self, cond, cond_path)]
             errors ==
                (IF trigger.logic \notin Range(CompoundLogic)
                 THEN <<TriggerValidationError(path \o ".logic",
                           "Invalid logic operator", trigger.logic)>>
                 ELSE <<>>)
                \o (IF trigger.conditions = <<>>
                    THEN <<TriggerValidationError(path \o ".conditions",
                              "Compound trigger must have at least one condition", None)>>
                    ELSE <<>>)
                \o Flatten([i \in DOMAIN results |-> results[i].errors], Len(results))
             warnings ==
                Flatten([i \in DOMAIN results |-> results[i].warnings], Len(results))
         IN ResultOf(errors, warnings)

(***************************************************************************)
(* validate_compound_trigger on nested triggers (C19)                      *)
(***************************************************************************)
MaxNesting == 6

CompoundInput(form, logic, conditions) ==
    [form |-> form, logic |-> logic, conditions |-> conditions]

\* what the innermost compound holds: a condition that passes, one whose
\* target does not exist, one that draws an advisory; in a dict also a
\* condition that does not parse, no condition at all, and what a compound
\* with an unknown logic holds
InnerCondition(form, inner) ==
    CASE inner = "good" -> ConditionInput(form, "vocab_used_correctly", hola, ">=", 3)
      [] inner = "dangling"
            -> ConditionInput(form, "vocab_used_correctly", nonexistent, ">=", 3)
      [] inner = "advisory"
            -> ConditionInput(form, "quest_completed", quest_2_delivery, "<", 1)
      [] inner = "negative"
            -> ConditionInput(form, "vocab_used_correctly", hola, ">=", 0 - 1)
      [] inner = "xor" -> ConditionInput(form, "vocab_used_correctly", adios, ">=", 3)

InnerKinds(form) ==
    IF form = "object" THEN {"good", "dangling", "advisory"}
    ELSE {"good", "dangling", "advisory", "negative", "empty", "xor"}

Shapes == {"only", "flanked"}

\* the compound trigger nested Len(shapes) levels deep: a level holds the
\* next level alone, or between a condition that draws an advisory and one
\* whose target does not exist
RECURSIVE Nest(_, _, _)
Nest(form, shapes, inner) ==
    IF Len(shapes) = 1
    THEN CompoundInput(form, IF inner = "xor" THEN "XOR" ELSE "AND",
            IF inner = "empty" THEN <<>>
            ELSE IF Head(shapes) = "only" THEN <<InnerCondition(form, inner)>>
            ELSE <<InnerCondition(form, "advisory"), InnerCondition(form, inner),
                   InnerCondition(form, "dangling")>>)
    ELSE LET child == Nest(form, Tail(shapes), inner)
         IN CompoundInput(form, "OR",
               IF Head(shapes) = "only" THEN <<child>>
               ELSE <<InnerCondition(form, "advisory"), child,
                      InnerCondition(form, "dangling")>>)

InitCompound ==
    /\ validator = validator_fixture
    /\ call = NoCall
    /\ result = <<>>
    /\ gen = GenIdle

\* result = validator.validate_compound_trigger(trigger, max_depth=max_depth)
CallValidateCompoundTrigger(trigger, max_depth) ==
    /\ call' = [op |-> "validate_compound_trigger", trigger |-> trigger,
                max_depth |-> max_depth]
    /\ result' = validate_compound_trigger(validator, trigger, "trigger", max_depth)
    /\ UNCHANGED <<validator, gen>>

NextCompound ==
    /\ call.op = "none"
    /\ \E form \in {"object", "dict"}, n \in 1..MaxNesting, max_depth \in {2, 5} :
       \E shapes \in [1..n -> Shapes], inner \in InnerKinds(form) :
          CallValidateCompoundTrigger(Nest(form, shapes, inner), max_depth)

SpecCompound == InitCompound /\ [][NextCompound]_vars

\* how many levels of compound triggers the trigger nests
RECURSIVE Nesting(_)
Nesting(trigger) ==
    IF ~IsCompound(trigger) THEN 0
    ELSE 1 + (IF trigger.conditions = <<>> THEN 0
              ELSE Max({Nesting(trigger.conditions[i]) : i \in DOMAIN trigger.conditions}))

\* the leaf conditions of the tree that lie at most levels compounds deep
RECURSIVE LeavesWithin(_, _)
LeavesWithin(trigger, levels) ==
    IF ~IsCompound(trigger) THEN <<trigger>>
    ELSE IF levels = 0 THEN <<>>
    ELSE Flatten([i \in DOMAIN trigger.conditions |->
                     LeavesWithin(trigger.conditions[i], levels - 1)],
                 Len(trigger.conditions))

\* the compound triggers of the tree
RECURSIVE Compounds(_)
Compounds(trigger) ==
    IF ~IsCompound(trigger) THEN {}
    ELSE {trigger} \cup UNION {Compounds(trigger.conditions[i]) :
                                  i \in DOMAIN trigger.conditions}

LeafResult(leaf) == validate_trigger_condition(validator, leaf, "leaf")

EveryLeafValid(trigger) ==
    LET leaves == LeavesWithin(trigger, Nesting(trigger))
    IN \A i \in DOMAIN leaves : LeafResult(leaves[i]).is_valid

EveryCompoundWellFormed(trigger) ==
    \A c \in Compounds(trigger) :
        c.logic \in Range(CompoundLogic) /\ c.conditions # <<>>

\* the tree is one of model objects, or a dict that parses as one
Parses(trigger) ==
    LET leaves == LeavesWithin(trigger, Nesting(trigger))
    IN /\ EveryCompoundWellFormed(trigger)
       /\ \A i \in DOMAIN leaves : IsTriggerCondition(leaves[i])

RECURSIVE SumOver(_, _)
SumOver(seq, n) == IF n = 0 THEN 0 ELSE SumOver(seq, n - 1) + seq[n]

\* C19 as stated: validate_compound_trigger with maximum depth D reports the
\* trigger invalid whenever compound triggers are nested more than D levels
\* deep, and for nesting of at most D levels reports it valid iff every leaf
\* condition in the tree is valid.
Cex_C19_ValidIffLeavesValid ==
    call.op = "validate_compound_trigger" =>
        IF Nesting(call.trigger) > call.max_depth THEN ~result.is_valid
        ELSE result.is_valid <=> EveryLeafValid(call.trigger)

\* ---- C19
\* C19: validate_compound_trigger with maximum depth D reports the trigger
\* invalid whenever compound triggers are nested more than D levels deep,
\* and for nesting of at most D levels reports it valid iff every leaf
\* condition in the tree is valid and every compound trigger in the tree has
\* a logic of AND or OR and a non-empty conditions list; when the tree
\* parses, the errors and the warnings of all the children down to level D
\* are in the result, one more error standing for what lies deeper.
Thm_C19_DepthBoundAndAggregation ==
    call.op = "validate_compound_trigger" =>
        LET trigger == call.trigger
            leaves == LeavesWithin(trigger, call.max_depth)
        IN /\ Nesting(trigger) > call.max_depth => ~result.is_valid
           /\ Nesting(trigger) <= call.max_depth =>
                 (result.is_valid <=>
                     EveryLeafValid(trigger) /\ EveryCompoundWellFormed(trigger))
           /\ Parses(trigger) =>
                 /\ Len(result.errors) =
                       SumOver([i \in DOMAIN leaves |-> Len(LeafResult(leaves[i]).errors)],
                               Len(leaves))
                       + (IF Nesting(trigger) > call.max_depth THEN 1 ELSE 0)
                 /\ Len(result.warnings) =
                       SumOver([i \in DOMAIN leaves |-> Len(LeafResult(leaves[i]).warnings)],
                               Len(leaves))

\* six levels against the default depth of five, every level flanked: the
\* depth error comes with the errors and warnings of the five levels above
Wit_C19_SixLevelsFlanked ==
    /\ call.op = "validate_compound_trigger"
    /\ call.max_depth = 5
    /\ Nesting(call.trigger) = 6
    /\ Len(call.trigger.conditions) = 3
    /\ ~result.is_valid
    /\ Len(result.errors) = 6
    /\ Len(result.warnings) = 5


(***************************************************************************)
(* validate_skill_progression_trigger,                                     *)
(* validate_level_progression_requirement                                  *)
(***************************************************************************)
SkillProgressionTrigger(form, skill_id, points_awarded, trigger, repeatable, cooldown_interactions) ==
    [form |-> form, skill_id |-> skill_id, points_awarded |-> points_awarded,
     trigger |-> trigger, repeatable |-> repeatable,
     cooldown_interactions |-> cooldown_interactions]

\* the errors of the ValidationError that SkillProgressionTrigger(**trigger)
\* raises
SkillTriggerParseErrors(trigger, path) ==
    (IF trigger.points_awarded < 1 \/ trigger.points_awarded > 100
     THEN <<TriggerValidationError(path \o ".points_awarded", "pydantic", None)>>
     ELSE <<>>)
    \o (IF IsCompound(trigger.trigger)
        THEN CompoundParseErrors(trigger.trigger, path \o ".trigger")
        ELSE ConditionParseErrors(trigger.trigger, path \o ".trigger"))
    \o (IF trigger.cooldown_interactions < 0
        THEN <<TriggerValidationError(path \o ".cooldown_interactions", "pydantic", None)>>
        ELSE <<>>)

validate_skill_progression_trigger(self, trigger, path) ==
    IF trigger.form = "dict" /\ SkillTriggerParseErrors(trigger, path) # <<>>
    THEN TriggerValidationResult(FALSE, SkillTriggerParseErrors(trigger, path), <<>>)
    ELSE LET result_ ==
                IF IsCompound(trigger.trigger)
                THEN validate_compound_trigger(self, trigger.trigger, path \o ".trigger", 5)
                ELSE validate_trigger_condition(self, trigger.trigger, path \o ".trigger")
             errors ==
                (IF self.valid_skill_ids.supplied
                    /\ trigger.skill_id \notin self.valid_skill_ids.ids
                 THEN <<TriggerValidationError(path \o ".skill_id",
                           "Skill ID does not exist", trigger.skill_id)>>
                 ELSE <<>>)
                \o (IF ~MatchesIdPattern(trigger.skill_id)
                    THEN <<TriggerValidationError(path \o ".skill_id",
                              "Skill ID contains invalid characters", trigger.skill_id)>>
                    ELSE <<>>)
                \o (IF trigger.points_awarded < 1 \/ trigger.points_awarded > 100
                    THEN <<TriggerValidationError(path \o ".points_awarded",
                              "Points awarded must be between 1 and 100",
                              DecimalChars(trigger.points_awarded))>>
                    ELSE <<>>)
                \o result_.errors
             warnings ==
                (IF ~trigger.repeatable /\ trigger.cooldown_interactions > 0
                 THEN <<path \o ": cooldown_interactions is set but trigger is not repeatable">>
                 ELSE <<>>)
                \o result_.warnings
         IN ResultOf(errors, warnings)

SkillThreshold(skill_id, minimum_level) ==
    [skill_id |-> skill_id, minimum_level |-> minimum_level]

LevelProgressionRequirement(form, from_level, to_level, minimum_total_skill_points, required_skill_thresholds, flexible_skill_pool, flexible_skill_count, flexible_threshold) ==
    [form |-> form, from_level |-> from_level, to_level |-> to_level,
     minimum_total_skill_points |-> minimum_total_skill_points,
     required_skill_thresholds |-> required_skill_thresholds,
     flexible_skill_pool |-> flexible_skill_pool,
     flexible_skill_count |-> flexible_skill_count,
     flexible_threshold |-> flexible_threshold]

level_order == <<"A0", "A0+", "A1", "A1+", "A2">>

\* the errors of the ValidationError that
\* LevelProgressionRequirement(**requirement) raises
RequirementParseErrors(requirement, path) ==
    (IF requirement.from_level \notin Range(level_order)
     THEN <<TriggerValidationError(path \o ".from_level", "pydantic", None)>>
     ELSE <<>>)
    \o (IF requirement.to_level \notin Range(level_order)
        THEN <<TriggerValidationError(path \o ".to_level", "pydantic", None)>>
        ELSE <<>>)
    \o (IF requirement.minimum_total_skill_points < 0
        THEN <<TriggerValidationError(path \o ".minimum_total_skill_points",
                  "pydantic", None)>>
        ELSE <<>>)
    \o Flatten([i \in DOMAIN requirement.required_skill_thresholds |->
                  IF requirement.required_skill_thresholds[i].minimum_level \notin 0..100
                  THEN <<TriggerValidationError(
                            path \o ".required_skill_thresholds." \o ToString(i - 1)
                                 \o ".minimum_level", "pydantic", None)>>
                  ELSE <<>>],
               Len(requirement.required_skill_thresholds))
    \o (IF requirement.flexible_skill_count < 0
        THEN <<TriggerValidationError(path \o ".flexible_skill_count", "pydantic", None)>>
        ELSE <<>>)
    \o (IF requirement.flexible_threshold \notin 0..100
        THEN <<TriggerValidationError(path \o ".flexible_threshold", "pydantic", None)>>
        ELSE <<>>)

\* level_order.index(level)
LevelIndex(level) == CHOOSE i \in DOMAIN level_order : level_order[i] = level

MutantAnyForwardStep(from_idx, to_idx) == to_idx > from_idx

\* the pair passes the order check: not (to_idx != from_idx + 1)
Sequential(from_idx, to_idx) == to_idx = from_idx + 1

MutantPoolMayBeShortByOne(flexible_skill_count, flexible_skill_pool) == flexible_skill_count > Len(flexible_skill_pool) + 1

\* requirement.flexible_skill_count > len(requirement.flexible_skill_pool)
ExceedsPool(flexible_skill_count, flexible_skill_pool) == flexible_skill_count > Len(flexible_skill_pool)

validate_level_progression_requirement(self, requirement, path) ==
    IF requirement.form = "dict" /\ RequirementParseErrors(requirement, path) # <<>>
    THEN TriggerValidationResult(FALSE, RequirementParseErrors(requirement, path), <<>>)
    ELSE LET thresholds == requirement.required_skill_thresholds
             pool == requirement.flexible_skill_pool
             errors ==
                (IF requirement.from_level \notin Range(level_order)
                    \/ requirement.to_level \notin Range(level_order)
                 THEN <<TriggerValidationError(path, "Invalid language level", None)>>
                 ELSE IF ~Sequential(LevelIndex(requirement.from_level),
                                     LevelIndex(requirement.to_level))
                 THEN <<TriggerValidationError(path \o ".to_level",
                           "Level progression must be sequential",
                           requirement.from_level \o " -> " \o requirement.to_level)>>
                 ELSE <<>>)
                \o (IF requirement.minimum_total_skill_points < 0
                    THEN <<TriggerValidationError(path \o ".minimum_total_skill_points",
                              "Minimum total skill points must be non-negative", None)>>
                    ELSE <<>>)
                \o Flatten([i \in DOMAIN thresholds |->
                      (IF self.valid_skill_ids.supplied
                          /\ thresholds[i].skill_id \notin self.valid_skill_ids.ids
                       THEN <<TriggerValidationError(
                                 path \o ".required_skill_thresholds["
                                      \o ToString(i - 1) \o "].skill_id",
                                 "Skill ID does not exist", thresholds[i].skill_id)>>
                       ELSE <<>>)
                      \o (IF thresholds[i].minimum_level < 0
                             \/ thresholds[i].minimum_level > 100
                          THEN <<TriggerValidationError(
                                    path \o ".required_skill_thresholds["
                                         \o ToString(i - 1) \o "].minimum_level",
                                    "Minimum level must be between 0 and 100", None)>>
                          ELSE <<>>)],
                      Len(thresholds))
                \o (IF requirement.flexible_skill_count > 0 /\ pool = <<>>
                    THEN <<TriggerValidationError(path \o ".flexible_skill_pool",
                              "flexible_skill_pool cannot be empty", None)>>
                    ELSE <<>>)
                \o (IF requirement.flexible_skill_count > 0
                       /\ ExceedsPool(requirement.flexible_skill_count, pool)
                    THEN <<TriggerValidationError(path \o ".flexible_skill_count",
                              "flexible_skill_count cannot exceed size of flexible_skill_pool",
                              None)>>
                    ELSE <<>>)
             warnings ==
                IF requirement.flexible_skill_count > 0 /\ self.valid_skill_ids.supplied
                THEN Flatten([i \in DOMAIN pool |->
                        IF pool[i] \notin self.valid_skill_ids.ids
                        THEN <<path \o ".flexible_skill_pool: Skill ID does not exist">>
                        ELSE <<>>],
                        Len(pool))
                ELSE <<>>
         IN ResultOf(errors, warnings)


(***************************************************************************)
(* The four validation methods and the results they return (C20)           *)
(***************************************************************************)
AdvisoryTargets == {hola, quest_2_delivery, pragmatic_greetings, nonexistent, hello_world}

\* the triggers a skill progression trigger is given
SkillTriggerBodies(form) ==
    {ConditionInput(form, "vocab_used_correctly", hola, ">=", 3),
     ConditionInput(form, "vocab_used_correctly", nonexistent, ">=", 3),
     ConditionInput(form, "skill_level_reached", pragmatic_greetings, ">=", 150),
     Nest(form, <<"flanked">>, "good")}

RequiredThresholds(form) ==
    {<<>>, <<SkillThreshold(pragmatic_greetings, 50)>>,
     <<SkillThreshold(nonexistent, 50), SkillThreshold(pragmatic_greetings, 0)>>}
    \cup (IF form = "dict" THEN {<<SkillThreshold(pragmatic_greetings, 101)>>} ELSE {})

FlexiblePools == {<<>>, <<pragmatic_greetings>>, <<nonexistent, hola>>}

CallValidate(op, input, returned) ==
    /\ call.op = "none"
    /\ call' = [op |-> op, input |-> input]
    /\ result' = returned
    /\ UNCHANGED <<validator, gen>>

NextValidators ==
    \/ /\ call.op = "none"
       /\ \E trigger_type \in Range(TriggerType), target_id \in AdvisoryTargets,
             operator \in {"==", ">=", "<"}, threshold \in {1, 2, 101, 1001} :
          \E condition \in {ConditionInput("object", trigger_type, target_id,
                                           operator, threshold)} :
             CallValidate("validate_trigger_condition", condition,
                          validate_trigger_condition(validator, condition, "condition"))
    \/ /\ call.op = "none"
       /\ \E trigger_type \in {"quest_completed", "total_skill_points", "vocab_mastered"},
             target_id \in AdvisoryTargets,
             operator \in {"==", "<", "=>"}, threshold \in {0 - 1, 2, 1001} :
          \E condition \in {ConditionInput("dict", trigger_type, target_id,
                                           operator, threshold)} :
             CallValidate("validate_trigger_condition", condition,
                          validate_trigger_condition(validator, condition, "condition"))
    \/ /\ call.op = "none"
       /\ \E form \in {"object", "dict"}, n \in 1..2, max_depth \in {1, 5} :
          \E shapes \in [1..n -> Shapes], inner \in InnerKinds(form) :
          \E trigger \in {Nest(form, shapes, inner)} :
             CallValidate("validate_compound_trigger", trigger,
                          validate_compound_trigger(validator, trigger, "trigger", max_depth))
    \/ /\ call.op = "none"
       /\ \E form \in {"object", "dict"},
             skill_id \in {pragmatic_greetings, nonexistent, hello_world, <<>>},
             repeatable \in BOOLEAN, cooldown_interactions \in {0, 5} :
          \E points_awarded \in IF form = "dict" THEN {0, 10, 101} ELSE {10},
             body \in SkillTriggerBodies(form) :
          \E trigger \in {SkillProgressionTrigger(form, skill_id, points_awarded, body,
                                                  repeatable, cooldown_interactions)} :
             CallValidate("validate_skill_progression_trigger", trigger,
                          validate_skill_progression_trigger(validator, trigger,
                                                             "skill_trigger"))
    \/ /\ call.op = "none"
       /\ \E form \in {"object", "dict"}, from_level \in {"A0", "A1", "A2"},
             to_level \in {"A0", "A0+", "A1+"}, pool \in FlexiblePools,
             flexible_skill_count \in {0, 1, 5} :
          \E points \in IF form = "dict" THEN {0 - 1, 500} ELSE {500},
             thresholds \in RequiredThresholds(form) :
          \E requirement \in {LevelProgressionRequirement(form, from_level, to_level,
                                  points, thresholds, pool, flexible_skill_count, 20)} :
             CallValidate("validate_level_progression_requirement", requirement,
                          validate_level_progression_requirement(validator, requirement,
                                                                 "level_requirement"))

SpecValidators == InitTrigger /\ [][NextValidators]_vars

ValidatorCalled ==
    call.op \in {"validate_trigger_condition", "validate_compound_trigger",
                 "validate_skill_progression_trigger",
                 "validate_level_progression_requirement"}

\* the semantic advisories on a condition
Advisory(condition) ==
    \/ condition.trigger_type = "quest_completed" /\ condition.operator \notin {"==", ">="}
    \/ /\ condition.trigger_type = "quest_completed"
       /\ condition.operator = "=="
       /\ condition.threshold # 1
    \/ condition.trigger_type = "skill_level_reached" /\ condition.threshold > 100
    \/ condition.trigger_type = "total_skill_points" /\ condition.threshold > 1000

\* what makes a condition valid, the advisories left aside
ConditionAcceptable(condition) ==
    /\ IsTriggerCondition(condition)
    /\ condition.target_id # <<>>
    /\ \A n \in DOMAIN condition.target_id : IsIdChar(condition.target_id[n])
    /\ ~DanglingReference(condition)

\* what makes a skill progression trigger valid, the advisories left aside:
\* its own fields, and every condition of the trigger it holds
SkillTriggerAcceptable(trigger) ==
    /\ trigger.points_awarded \in 1..100
    /\ trigger.skill_id # <<>>
    /\ \A n \in DOMAIN trigger.skill_id : IsIdChar(trigger.skill_id[n])
    /\ validator.valid_skill_ids.supplied
          => trigger.skill_id \in validator.valid_skill_ids.ids
    /\ LET leaves == LeavesWithin(trigger.trigger, 5)
       IN \A i \in DOMAIN leaves : ConditionAcceptable(leaves[i])

\* ---- C20
\* C20: every result the four validation methods return has is_valid true
\* iff its errors list is empty; whether a condition or a skill progression
\* trigger is valid does not depend on the semantic advisories, which add a
\* warning each: a condition draws a warning iff it is a quest-completion
\* condition with an operator other than == and >= or with == and a
\* threshold other than 1, a skill-level condition with a threshold above
\* 100 or a total-skill-point condition with a threshold above 1000, and a
\* non-repeatable skill progression trigger with cooldown_interactions > 0
\* draws one.
Thm_C20_ValidIffNoErrors ==
    ValidatorCalled =>
        /\ result.is_valid <=> result.errors = <<>>
        /\ call.op = "validate_trigger_condition" =>
              /\ result.is_valid <=> ConditionAcceptable(call.input)
              /\ IsTriggerCondition(call.input)
                    => (result.warnings # <<>> <=> Advisory(call.input))
        /\ call.op = "validate_skill_progression_trigger" =>
              /\ result.is_valid <=> SkillTriggerAcceptable(call.input)
              /\ (SkillTriggerAcceptable(call.input)
                  /\ ~call.input.repeatable
                  /\ call.input.cooldown_interactions > 0)
                    => \E i \in DOMAIN result.warnings :
                          result.warnings[i] = "skill_trigger: cooldown_interactions is set but trigger is not repeatable"

\* a non-repeatable trigger with a cooldown on a skill-level condition above
\* 100: two warnings, no error, valid
Wit_C20_ValidWithTwoAdvisories ==
    /\ call.op = "validate_skill_progression_trigger"
    /\ validator = validator_fixture
    /\ ~call.input.repeatable
    /\ call.input.cooldown_interactions > 0
    /\ ~IsCompound(call.input.trigger)
    /\ Advisory(call.input.trigger)
    /\ result.is_valid
    /\ result.errors = <<>>
    /\ Len(result.warnings) = 2

(***************************************************************************)
(* Level progression requirements: order and flexible pool (C21, C22)      *)
(***************************************************************************)
MaxFlexibleCount == 3

\* a dict may name a level that LanguageLevel does not have
RequirementLevels(form) ==
    Range(level_order) \cup (IF form = "dict" THEN {"B1"} ELSE {})

\* result = validator.validate_level_progression_requirement(requirement)
CallValidateRequirement(requirement) ==
    CallValidate("validate_level_progression_requirement", requirement,
                 validate_level_progression_requirement(validator, requirement,
                                                        "level_requirement"))

NextLevelRequirement ==
    \/ /\ call.op = "none"
       /\ \E from_level \in RequirementLevels("object"),
             to_level \in RequirementLevels("object"),
             pool \in FlexiblePools, flexible_skill_count \in 0..MaxFlexibleCount,
             thresholds \in RequiredThresholds("object") :
             CallValidateRequirement(
                 LevelProgressionRequirement("object", from_level, to_level, 50,
                     thresholds, pool, flexible_skill_count, 20))
    \/ /\ call.op = "none"
       /\ \E from_level \in RequirementLevels("dict"),
             to_level \in RequirementLevels("dict"),
             pool \in FlexiblePools, flexible_skill_count \in (0 - 1)..MaxFlexibleCount,
             points \in {0 - 1, 0, 50} :
             CallValidateRequirement(
                 LevelProgressionRequirement("dict", from_level, to_level, points,
                     <<SkillThreshold(pragmatic_greetings, 50)>>, pool,
                     flexible_skill_count, 20))

SpecLevelRequirement == InitTrigger /\ [][NextLevelRequirement]_vars

RequirementCalled == call.op = "validate_level_progression_requirement"

\* the requirement reached the checks: it is a model object, or a dict
\* that LevelProgressionRequirement(**requirement) accepts
RequirementParsed ==
    \/ call.input.form = "object"
    \/ RequirementParseErrors(call.input, "level_requirement") = <<>>

\* the four adjacent forward pairs of A0 < A0+ < A1 < A1+ < A2
AdjacentForward ==
    {<<"A0", "A0+">>, <<"A0+", "A1">>, <<"A1", "A1+">>, <<"A1+", "A2">>}

ErrorOn(field, message) ==
    \E i \in DOMAIN result.errors :
        /\ result.errors[i].field = field
        /\ result.errors[i].message = message

\* ---- C21
\* C21: validate_level_progression_requirement reports an error for every
\* (from_level, to_level) pair whose to_level is not the level immediately
\* after from_level in A0 < A0+ < A1 < A1+ < A2: a skipped level, the same
\* level and a backward step are all invalid, and the sequential-progression
\* error is absent exactly for the four adjacent forward pairs.
Thm_C21_OnlyAdjacentForwardPasses ==
    RequirementCalled =>
        LET pair == <<call.input.from_level, call.input.to_level>>
        IN /\ pair \notin AdjacentForward
                 => (result.errors # <<>> /\ ~result.is_valid)
           /\ RequirementParsed
                 => (ErrorOn("level_requirement.to_level",
                             "Level progression must be sequential")
                        <=> pair \notin AdjacentForward)
           /\ pair \in AdjacentForward
                 => ~ErrorOn("level_requirement.to_level",
                             "Level progression must be sequential")

\* A0 -> A1 skips A0+: the one error of the result is the sequential one
Wit_C21_SkippedLevelRejected ==
    /\ RequirementCalled
    /\ call.input.form = "object"
    /\ call.input.from_level = "A0"
    /\ call.input.to_level = "A1"
    /\ call.input.flexible_skill_count = 0
    /\ validator = validator_no_refs
    /\ ~result.is_valid
    /\ Len(result.errors) = 1
    /\ result.errors[1].value = "A0 -> A1"

\* ---- C22
\* C22: validate_level_progression_requirement reports an error whenever
\* flexible_skill_count exceeds the size of flexible_skill_pool, and whenever
\* flexible_skill_count > 0 with an empty pool; with flexible_skill_count = 0
\* the flexible-pool check passes for any pool, the empty one included.
Thm_C22_FlexibleCountWithinPool ==
    RequirementCalled =>
        LET count == call.input.flexible_skill_count
            pool == call.input.flexible_skill_pool
        IN /\ count > Len(pool) => (result.errors # <<>> /\ ~result.is_valid)
           /\ (count > 0 /\ pool = <<>>) => (result.errors # <<>> /\ ~result.is_valid)
           /\ RequirementParsed =>
                 /\ ErrorOn("level_requirement.flexible_skill_count",
                            "flexible_skill_count cannot exceed size of flexible_skill_pool")
                       <=> count > Len(pool)
                 /\ ErrorOn("level_requirement.flexible_skill_pool",
                            "flexible_skill_pool cannot be empty")
                       <=> (count > 0 /\ pool = <<>>)
           /\ count = 0 =>
                 /\ ~ErrorOn("level_requirement.flexible_skill_count",
                             "flexible_skill_count cannot exceed size of flexible_skill_pool")
                 /\ ~ErrorOn("level_requirement.flexible_skill_pool",
                             "flexible_skill_pool cannot be empty")

\* two skills asked of a pool of one: the one error is on flexible_skill_count
Wit_C22_CountExceedsPool ==
    /\ RequirementCalled
    /\ call.input.form = "object"
    /\ <<call.input.from_level, call.input.to_level>> \in AdjacentForward
    /\ call.input.flexible_skill_count = 2
    /\ Len(call.input.flexible_skill_pool) = 1
    /\ validator = validator_no_refs
    /\ ~result.is_valid
    /\ Len(result.errors) = 1
    /\ result.errors[1].field = "level_requirement.flexible_skill_count"

(***************************************************************************)
(* LevelProgressionConfig and LevelProgressionEvaluator (C23, C24)         *)
(***************************************************************************)
LevelProgressionConfig(requirements) ==
    [requirements |-> requirements, total_skill_point_cap |-> 1000]

MutantFallsBackToLast(self, from_level) == IF self.requirements = <<>> THEN <<>> ELSE <<self.requirements[Len(self.requirements)]>>

\* config.get_requirement(from_level): the first requirement of the list
\* that starts at from_level; the Optional result is a sequence of at most
\* one requirement, <<>> standing for None
get_requirement(self, from_level) ==
    LET hits == {i \in DOMAIN self.requirements :
                    self.requirements[i].from_level = from_level}
    IN IF hits = {} THEN <<>> ELSE <<self.requirements[Min(hits)]>>

LevelProgressionEvaluator(config) == [config |-> config]

\* sum(skill_levels.values())
RECURSIVE SumValues(_)
SumValues(skill_levels) ==
    IF DOMAIN skill_levels = {} THEN 0
    ELSE LET skill_id == CHOOSE k \in DOMAIN skill_levels : TRUE
         IN skill_levels[skill_id]
            + SumValues([k \in DOMAIN skill_levels \ {skill_id} |-> skill_levels[k]])

\* skill_levels.get(skill_id, 0)
GetLevel(skill_levels, skill_id) ==
    IF skill_id \in DOMAIN skill_levels THEN skill_levels[skill_id] ELSE 0

\* the characters of an id as one string
RECURSIVE IdString(_)
IdString(chars) == IF chars = <<>> THEN "" ELSE Head(chars) \o IdString(Tail(chars))

\* the entries of flexible_skill_pool at or above flexible_threshold: the
\* loop adds one per entry of the list
Qualifying(requirement, skill_levels) ==
    Cardinality({i \in DOMAIN requirement.flexible_skill_pool :
                    GetLevel(skill_levels, requirement.flexible_skill_pool[i])
                        >= requirement.flexible_threshold})

\* evaluator.can_advance(current_level, skill_levels): (can_advance, reasons)
can_advance(self, current_level, skill_levels) ==
    LET found == get_requirement(self.config, current_level)
    IN IF found = <<>>
       THEN <<FALSE, <<"No progression available from this level">>>>
       ELSE LET requirement == found[1]
                thresholds == requirement.required_skill_thresholds
                total_points == SumValues(skill_levels)
                qualifying_count == Qualifying(requirement, skill_levels)
                reasons ==
                   (IF total_points < requirement.minimum_total_skill_points
                    THEN <<"Need " \o ToString(requirement.minimum_total_skill_points)
                             \o " total skill points, have " \o ToString(total_points)>>
                    ELSE <<>>)
                   \o Flatten([i \in DOMAIN thresholds |->
                         IF GetLevel(skill_levels, thresholds[i].skill_id)
                               < thresholds[i].minimum_level
                         THEN <<"Skill '" \o IdString(thresholds[i].skill_id)
                                  \o "' needs level "
                                  \o ToString(thresholds[i].minimum_level)
                                  \o ", have "
                                  \o ToString(GetLevel(skill_levels,
                                                       thresholds[i].skill_id))>>
                         ELSE <<>>],
                         Len(thresholds))
                   \o (IF requirement.flexible_skill_count > 0
                          /\ qualifying_count < requirement.flexible_skill_count
                       THEN <<"Need " \o ToString(requirement.flexible_skill_count)
                                \o " flexible skills at level "
                                \o ToString(requirement.flexible_threshold)
                                \o ", have " \o ToString(qualifying_count)>>
                       ELSE <<>>)
            IN <<Len(reasons) = 0, reasons>>

\* int((numerator / denominator) * 100) for a positive denominator: the
\* float quotient times 100, truncated. On the operands drawn below
\* (multiples of ten over 10, 20, 30 and 50, and counts over 1, 2 and 3) the
\* float product truncates to the exact integer quotient.
Percent(numerator, denominator) == (numerator * 100) \div denominator

\* min(100, x)
AtMost100(x) == IF x < 100 THEN x ELSE 100

\* evaluator.get_progress(current_level, skill_levels)
get_progress(self, current_level, skill_levels) ==
    LET found == get_requirement(self.config, current_level)
    IN IF found = <<>>
       THEN [error |-> "No progression available"]
       ELSE LET requirement == found[1]
                thresholds == requirement.required_skill_thresholds
                total_points == SumValues(skill_levels)
                core_progress ==
                   [i \in DOMAIN thresholds |->
                      LET current == GetLevel(skill_levels, thresholds[i].skill_id)
                      IN [skill_id |-> thresholds[i].skill_id,
                          current |-> current,
                          required |-> thresholds[i].minimum_level,
                          progress_percent |->
                             IF thresholds[i].minimum_level > 0
                             THEN AtMost100(Percent(current,
                                                    thresholds[i].minimum_level))
                             ELSE 100,
                          met |-> current >= thresholds[i].minimum_level]]
                core_met == Cardinality({i \in DOMAIN thresholds :
                                            core_progress[i].met})
                flexible_qualifying == Qualifying(requirement, skill_levels)
                total_weight == 3
                points_pct ==
                   IF requirement.minimum_total_skill_points > 0
                   THEN AtMost100(Percent(total_points,
                                          requirement.minimum_total_skill_points))
                   ELSE 100
                core_pct ==
                   IF Len(thresholds) > 0
                   THEN Percent(core_met, Len(thresholds))
                   ELSE 100
                flex_pct ==
                   IF requirement.flexible_skill_count > 0
                   THEN Percent(flexible_qualifying, requirement.flexible_skill_count)
                   ELSE 100
                overall_pct == (points_pct + core_pct + flex_pct) \div total_weight
            IN [from_level |-> current_level,
                to_level |-> requirement.to_level,
                total_points |-> [current |-> total_points,
                                  required |-> requirement.minimum_total_skill_points,
                                  progress_percent |-> points_pct],
                core_skills |-> [met |-> core_met,
                                 required |-> Len(thresholds),
                                 progress_percent |-> core_pct,
                                 details |-> core_progress],
                flexible_skills |-> [qualifying |-> flexible_qualifying,
                                     required |-> requirement.flexible_skill_count,
                                     threshold |-> requirement.flexible_threshold,
                                     progress_percent |-> flex_pct],
                overall_progress_percent |-> overall_pct]

\* the skills of the evaluated player and the levels they may have
EvaluatedSkills == {hola, adios, articles}

SkillLevelValues == {0, 10, 30}

\* flexible pools with the counts asked of them; articles may come twice,
\* as flexible_skill_pool is a list
FlexibleRequirements ==
    {<<<<>>, 0>>, <<<<articles, adios>>, 0>>, <<<<articles, adios>>, 1>>,
     <<<<articles, adios>>, 2>>, <<<<articles, articles>>, 2>>}

EvaluatedThresholds ==
    {<<>>, <<SkillThreshold(hola, 20)>>,
     <<SkillThreshold(hola, 20), SkillThreshold(adios, 10), SkillThreshold(articles, 0)>>}

\* the requirement after A0+ of every configuration
RequirementFromA0Plus ==
    LevelProgressionRequirement("object", "A0+", "A1", 50, <<>>, <<>>, 0, 0)

\* evaluator = LevelProgressionEvaluator(config), for configurations whose
\* requirements validate_level_progression_requirement accepts
InitEvaluator ==
    /\ \E points \in {0, 50}, thresholds \in EvaluatedThresholds,
          flexible \in FlexibleRequirements, flexible_threshold \in {0, 10} :
       \E requirement \in {LevelProgressionRequirement("object", "A0", "A0+", points,
                               thresholds, flexible[1], flexible[2],
                               flexible_threshold)} :
          /\ validate_level_progression_requirement(validator_no_refs, requirement,
                                                    "level_requirement").is_valid
          /\ gen = LevelProgressionEvaluator(
                       LevelProgressionConfig(<<requirement, RequirementFromA0Plus>>))
    /\ validator = validator_no_refs
    /\ call = NoCall
    /\ result = <<>>

CallEvaluator(op, current_level, skill_levels, returned) ==
    /\ call.op = "none"
    /\ call' = [op |-> op, current_level |-> current_level,
                skill_levels |-> skill_levels]
    /\ result' = returned
    /\ UNCHANGED <<validator, gen>>

NextEvaluator ==
    \/ /\ call.op = "none"
       /\ \E current_level \in {"A0", "A2"}, known \in SUBSET EvaluatedSkills :
          \E skill_levels \in [known -> SkillLevelValues] :
             CallEvaluator("can_advance", current_level, skill_levels,
                           can_advance(gen, current_level, skill_levels))
    \/ /\ call.op = "none"
       /\ \E current_level \in {"A0", "A2"}, known \in SUBSET EvaluatedSkills :
          \E skill_levels \in [known -> SkillLevelValues] :
             CallEvaluator("get_progress", current_level, skill_levels,
                           get_progress(gen, current_level, skill_levels))

SpecEvaluator == InitEvaluator /\ [][NextEvaluator]_vars

\* the requirement the call was evaluated against
Evaluated == get_requirement(gen.config, call.current_level)[1]

HasRequirement == get_requirement(gen.config, call.current_level) # <<>>

PointsMet ==
    SumValues(call.skill_levels) >= Evaluated.minimum_total_skill_points

UnmetThresholds ==
    {i \in DOMAIN Evaluated.required_skill_thresholds :
        GetLevel(call.skill_levels, Evaluated.required_skill_thresholds[i].skill_id)
            < Evaluated.required_skill_thresholds[i].minimum_level}

\* the distinct skills of the pool at or above the flexible threshold
DistinctQualifying ==
    {skill_id \in Range(Evaluated.flexible_skill_pool) :
        GetLevel(call.skill_levels, skill_id) >= Evaluated.flexible_threshold}

FlexibleMet == Cardinality(DistinctQualifying) >= Evaluated.flexible_skill_count

UnmetConditions ==
    (IF PointsMet THEN 0 ELSE 1) + Cardinality(UnmetThresholds)
        + (IF FlexibleMet THEN 0 ELSE 1)

\* ---- C23
\* C23: for a level that has a requirement, can_advance returns success iff
\* (a) the sum of all skill levels is at least minimum_total_skill_points,
\* (b) every required threshold is met, an absent skill counting as 0, and
\* (c) at least flexible_skill_count distinct skills of flexible_skill_pool
\* are at or above flexible_threshold; the reason list is empty iff it
\* succeeds and otherwise holds one reason per unmet condition.
Cex_C23_CanAdvanceIffAllMet ==
    (call.op = "can_advance" /\ HasRequirement) =>
        /\ result[1] <=> (PointsMet /\ UnmetThresholds = {} /\ FlexibleMet)
        /\ result[1] <=> result[2] = <<>>
        /\ Len(result[2]) = UnmetConditions

\* ---- C24
\* C24: for every requirement and every assignment of skill levels,
\* get_progress returns three sub-scores (points, core thresholds met,
\* flexible qualifying) and an overall_progress_percent that each lie in
\* [0,100]; a sub-score whose denominator is zero is reported as 100, and the
\* overall percentage is the unweighted average of the three.
Cex_C24_ProgressWithinBounds ==
    (call.op = "get_progress" /\ HasRequirement) =>
        /\ result.total_points.progress_percent \in 0..100
        /\ result.core_skills.progress_percent \in 0..100
        /\ result.flexible_skills.progress_percent \in 0..100
        /\ result.overall_progress_percent \in 0..100
        /\ Evaluated.minimum_total_skill_points = 0
              => result.total_points.progress_percent = 100
        /\ Evaluated.required_skill_thresholds = <<>>
              => result.core_skills.progress_percent = 100
        /\ Evaluated.flexible_skill_count = 0
              => result.flexible_skills.progress_percent = 100
        /\ result.overall_progress_percent
              = (result.total_points.progress_percent
                 + result.core_skills.progress_percent
                 + result.flexible_skills.progress_percent) \div 3

(***************************************************************************)
(* LevelProgressionGenerator (C25, C28)                                    *)
(***************************************************************************)
\* LevelProgressionGenerator.LEVEL_ORDER, by value
PROGRESSION_LEVEL_ORDER == <<"A0", "A0+", "A1", "A1+", "A2">>

BaseRequirement(min_total_points, core_skill_threshold, core_skill_count, flexible_threshold, flexible_count) ==
    [min_total_points |-> min_total_points,
     core_skill_threshold |-> core_skill_threshold,
     core_skill_count |-> core_skill_count,
     flexible_threshold |-> flexible_threshold,
     flexible_count |-> flexible_count]

\* the dict as the class body writes it, keys included
LEVEL_BASE_REQUIREMENTS ==
    ("A0->A0+" :> BaseRequirement(50, 20, 3, 10, 2))
    @@ ("A0->A1" :> BaseRequirement(120, 35, 5, 20, 3))
    @@ ("A1->A1+" :> BaseRequirement(250, 50, 7, 30, 4))
    @@ ("A1+->A2" :> BaseRequirement(450, 65, 10, 40, 5))

\* a LanguageSkill as the generator reads it: id, difficulty, category
Skill(id, difficulty, category) ==
    [id |-> id, difficulty |-> difficulty, category |-> category]

\* SkillGenerator._group_skills_by_level
_group_skills_by_level(skills) ==
    [level \in {skills[i].difficulty : i \in DOMAIN skills} |->
        LET AtLevel(skill) == skill.difficulty = level
            members == SelectSeq(skills, AtLevel)
        IN [i \in DOMAIN members |-> members[i].id]]

\* _find_skill_by_id: the first skill of the list with the id; a sequence of
\* at most one skill, <<>> standing for the empty dict
_find_skill_by_id(skills, skill_id) ==
    LET hits == {i \in DOMAIN skills : skills[i].id = skill_id}
    IN IF hits = {} THEN <<>> ELSE <<skills[Min(hits)]>>

\* seq[:n]
Prefix(seq, n) == SubSeq(seq, 1, IF n < Len(seq) THEN n ELSE Len(seq))

\* self.LEVEL_BASE_REQUIREMENTS.get(key, self.LEVEL_BASE_REQUIREMENTS["A0->A0+"])
BaseRequirementFor(key) ==
    IF key \in DOMAIN LEVEL_BASE_REQUIREMENTS
    THEN LEVEL_BASE_REQUIREMENTS[key]
    ELSE LEVEL_BASE_REQUIREMENTS["A0->A0+"]

_generate_requirement(from_level, to_level, skills, skills_by_level) ==
    LET key == from_level \o "->" \o to_level
        base_req == BaseRequirementFor(key)
        relevant_levels ==
            SubSeq(PROGRESSION_LEVEL_ORDER, 1,
                   CHOOSE i \in DOMAIN PROGRESSION_LEVEL_ORDER : PROGRESSION_LEVEL_ORDER[i] = from_level)
        relevant_skill_ids ==
            Flatten([i \in DOMAIN relevant_levels |->
                        IF relevant_levels[i] \in DOMAIN skills_by_level
                        THEN skills_by_level[relevant_levels[i]]
                        ELSE <<>>],
                    Len(relevant_levels))
        IsCore(skill_id) ==
            LET skill == _find_skill_by_id(skills, skill_id)
            IN /\ skill # <<>>
               /\ skill[1].difficulty # from_level
               /\ skill[1].category \in {"vocabulary", "grammar"}
        IsFlexible(skill_id) ==
            LET skill == _find_skill_by_id(skills, skill_id)
            IN /\ skill # <<>>
               /\ \/ skill[1].difficulty = from_level
                  \/ skill[1].category \notin {"vocabulary", "grammar"}
        core_skills == SelectSeq(relevant_skill_ids, IsCore)
        flexible_skills == SelectSeq(relevant_skill_ids, IsFlexible)
        selected_core == Prefix(core_skills, base_req.core_skill_count)
        required_thresholds ==
            [i \in DOMAIN selected_core |->
                SkillThreshold(selected_core[i], base_req.core_skill_threshold)]
        flexible_pool == Prefix(flexible_skills, base_req.flexible_count * 2)
    IN LevelProgressionRequirement("object", from_level, to_level,
           base_req.min_total_points, required_thresholds, flexible_pool,
           IF base_req.flexible_count < Len(flexible_pool)
           THEN base_req.flexible_count ELSE Len(flexible_pool),
           base_req.flexible_threshold)

\* the skills a world may have
SkillCatalogue ==
    <<Skill(hola, "A0", "vocabulary"), Skill(articles, "A0", "grammar"),
      Skill(pragmatic_greetings, "A0+", "pragmatic"), Skill(adios, "A1", "vocabulary")>>

\* the skills dict the skill generator hands over; _skill_ids lists every
\* skill, or went out of date and misses the hidden one
SkillsData(all_skills, hidden) ==
    [skills |-> all_skills,
     _skill_ids |-> {all_skills[i].id : i \in DOMAIN all_skills} \ hidden,
     _skills_by_level |-> _group_skills_by_level(all_skills)]

InitProgression ==
    /\ validator = validator_no_refs
    /\ call = NoCall
    /\ result = <<>>
    /\ gen = GenIdle

\* generate(skills), up to the loop: lines 88-96
ProgressionStart ==
    /\ gen.pc = "idle"
    /\ \E present \in SUBSET DOMAIN SkillCatalogue, hidden \in {{}, {hola}} :
       \E all_skills \in {SelectSeq(SkillCatalogue,
                             LAMBDA skill : \E i \in present : SkillCatalogue[i] = skill)} :
          /\ gen' = [pc |-> "loop", i |-> 0, requirements |-> <<>>,
                     skills |-> SkillsData(all_skills, hidden)]
          /\ validator' = TriggerValidator(Ids(SkillsData(all_skills, hidden)._skill_ids),
                                           NoIds, NoIds, NoIds, NoIds, NoIds, NoIds)
    /\ UNCHANGED <<call, result>>

\* one pass of the loop over range(len(self.LEVEL_ORDER) - 1): lines 98-116
ProgressionTransition ==
    /\ gen.pc = "loop"
    /\ gen.i < Len(PROGRESSION_LEVEL_ORDER) - 1
    /\ LET from_level == PROGRESSION_LEVEL_ORDER[gen.i + 1]
           to_level == PROGRESSION_LEVEL_ORDER[gen.i + 2]
           requirement == _generate_requirement(from_level, to_level,
                              gen.skills.skills, gen.skills._skills_by_level)
           result_ == validate_level_progression_requirement(validator, requirement,
                                                             "level_requirement")
       IN gen' = [gen EXCEPT !.i = gen.i + 1,
                             !.requirements =
                                 IF result_.is_valid
                                 THEN Append(gen.requirements, requirement)
                                 ELSE gen.requirements]
    /\ UNCHANGED <<validator, call, result>>

\* after the loop: the config and the data returned, lines 118-138
ProgressionFinish ==
    /\ gen.pc = "loop"
    /\ gen.i = Len(PROGRESSION_LEVEL_ORDER) - 1
    /\ gen' = [pc |-> "done",
               config |-> LevelProgressionConfig(gen.requirements),
               progression_data |->
                   [requirements |-> gen.requirements,
                    total_skill_point_cap |-> 1000,
                    _level_order |-> PROGRESSION_LEVEL_ORDER,
                    total_transitions |-> Len(gen.requirements)]]
    /\ UNCHANGED <<validator, call, result>>

\* LevelProgressionEvaluator(config).can_advance(current_level, skill_levels)
ProgressionCanAdvance ==
    /\ gen.pc = "done"
    /\ call.op = "none"
    /\ \E current_level \in Range(PROGRESSION_LEVEL_ORDER), level \in {0, 30, 100} :
       \E skill_levels \in {[skill_id \in {hola, articles, pragmatic_greetings, adios}
                                |-> level]} :
          /\ call' = [op |-> "can_advance", current_level |-> current_level,
                      skill_levels |-> skill_levels]
          /\ result' = can_advance(LevelProgressionEvaluator(gen.config),
                                   current_level, skill_levels)
    /\ UNCHANGED <<validator, gen>>

NextProgression ==
    \/ ProgressionStart
    \/ ProgressionTransition
    \/ ProgressionFinish
    \/ ProgressionCanAdvance

SpecProgression == InitProgression /\ [][NextProgression]_vars

\* the level immediately after a level, in A0 < A0+ < A1 < A1+ < A2
FollowingLevel ==
    ("A0" :> "A0+") @@ ("A0+" :> "A1") @@ ("A1" :> "A1+") @@ ("A1+" :> "A2")

\* the requirements the generator holds so far, or returned
Produced ==
    IF gen.pc = "loop" THEN gen.requirements
    ELSE IF gen.pc = "done" THEN gen.config.requirements
    ELSE <<>>

\* ---- C25
\* C25: level progression is a linear state machine that is terminal at A2:
\* the configuration LevelProgressionGenerator.generate produces holds at
\* most one requirement per from-level, each leading to the immediately
\* following level and none starting at A2, and can_advance for a level that
\* has no requirement returns failure with the reason 'No progression
\* available from this level' for every assignment of skill levels.
Thm_C25_LinearAndTerminalAtA2 ==
    /\ \A i, j \in DOMAIN Produced :
          Produced[i].from_level = Produced[j].from_level => i = j
    /\ \A i \in DOMAIN Produced :
          /\ Produced[i].from_level \in DOMAIN FollowingLevel
          /\ Produced[i].to_level = FollowingLevel[Produced[i].from_level]
    /\ (gen.pc = "done" /\ call.op = "can_advance") =>
          /\ (\A i \in DOMAIN Produced :
                 Produced[i].from_level # call.current_level)
                => result = <<FALSE, <<"No progression available from this level">>>>
          /\ call.current_level = "A2"
                => result = <<FALSE, <<"No progression available from this level">>>>

\* all four transitions were produced and a player with every skill at 100
\* asks to advance from A2
Wit_C25_NoAdvanceFromA2 ==
    /\ gen.pc = "done"
    /\ Len(gen.config.requirements) = 4
    /\ call.op = "can_advance"
    /\ call.current_level = "A2"
    /\ \A skill_id \in DOMAIN call.skill_levels : call.skill_levels[skill_id] = 100
    /\ result = <<FALSE, <<"No progression available from this level">>>>

\* the minimum total skill points documented for each transition
DocumentedPoints ==
    ("A0" :> 50) @@ ("A0+" :> 120) @@ ("A1" :> 250) @@ ("A1+" :> 450)

\* ---- C28
\* C28: for each of the four adjacent transitions _generate_requirement takes
\* its thresholds from the base-requirement entry documented for it: A0 to
\* A0+ requires 50 total skill points, A0+ to A1 120, A1 to A1+ 250 and A1+
\* to A2 450, so the minimum total skill points strictly increase along the
\* progression and no transition falls back to another transition's entry.
Cex_C28_DocumentedThresholds ==
    /\ \A i \in DOMAIN Produced :
          Produced[i].minimum_total_skill_points
              = DocumentedPoints[Produced[i].from_level]
    /\ \A i, j \in DOMAIN Produced :
          i < j => Produced[i].minimum_total_skill_points
                      < Produced[j].minimum_total_skill_points

\* ---- C27
\* C27: after construction from any location list and any global connection
\* list, every identifier in the adjacency set of a location names an
\* existing Location, so the reachable set computed from the adjacency map
\* never contains an identifier that is not an existing Location.
Cex_C27_NeighboursAreLocations ==
    /\ \A loc_id \in DOMAIN validator.location_connections :
          validator.location_connections[loc_id] \subseteq DOMAIN validator.locations
    /\ call.op = "_get_reachable_locations_at_level"
          => result \subseteq DOMAIN validator.locations

QuestAfterValidate(quest) == quest

\* the attributes __init__ builds from the world
WorldModelFields ==
    {"locations", "npcs", "items", "npc_locations", "item_locations",
     "items_at_location", "npc_levels", "location_levels",
     "location_connections", "starting_location"}

\* the quests of a session, one that names a giver, a location and an item
\* the world does not have, and one with no giver and no task
FrameBodies ==
    SessionBodies
    \cup { [giver |-> "ghost", steps |-> <<Step("at_location", "atlantis", 1),
                                           Step("has_item", "phantom", 2)>>],
           [giver |-> None, steps |-> <<>>] }

CallsMade == IF call.op = "none" THEN 0 ELSE call.n

\* issues = validator.validate_quest(quest)
FrameValidateQuest(quest) ==
    /\ CallsMade < MaxCalls
    /\ call' = [op |-> "validate_quest", n |-> CallsMade + 1,
                passed |-> <<quest>>, after |-> <<QuestAfterValidate(quest)>>]
    /\ result' = validate_quest(validator, quest)
    /\ validator' = AfterValidateQuest(validator, quest)
    /\ UNCHANGED gen

\* issues = validator.validate_all({"quests": quests}): validate_quest on
\* each quest of the list in turn
FrameValidateAll(quests) ==
    /\ CallsMade < MaxCalls
    /\ call' = [op |-> "validate_all", n |-> CallsMade + 1,
                passed |-> quests,
                after |-> [i \in DOMAIN quests |-> QuestAfterValidate(quests[i])]]
    /\ result' = validate_all(validator, quests)
    /\ validator' = AfterValidateAll(validator, quests, Len(quests))
    /\ UNCHANGED gen

NextFrame ==
    \/ /\ CallsMade < MaxCalls
       /\ \E body \in FrameBodies :
             FrameValidateQuest(QuestOf("q1", body.giver, "A0", body.steps))
    \/ /\ CallsMade < MaxCalls
       /\ \E n \in {0, 2} :
          \E bodies \in [1..n -> SessionBodies] :
             FrameValidateAll(BatchOf([i \in 1..n |-> "q" \o ToString(i)], bodies))

SpecFrame == InitSample /\ [][NextFrame]_vars

ApartFromDuplicateInfo(issues) ==
    SelectSeq(issues, LAMBDA i : ~(i.rule = "no_duplicate_structures"
                                   /\ i.severity = INFO))

\* the ERROR and WARNING issues
ErrorsAndWarnings(issues) ==
    SelectSeq(issues, LAMBDA i : i.severity \in {ERROR, WARNING})

IssuesOf(issues, quest_id) ==
    SelectSeq(issues, LAMBDA i : i.quest_id = quest_id)

\* the task patterns a validator of these sessions may have seen
SeenPatterns ==
    {TaskPattern(QuestOf("q1", body.giver, "A0", body.steps)) : body \in FrameBodies}

\* the validator with another de-duplication state
WithSeen(self, seen) == [self EXCEPT !.seen_task_patterns = seen]

\* ---- C29
\* C29: whether a quest is accepted or rejected does not depend on the
\* de-duplication state or on the other quests of the batch: for any two
\* contents of the seen-task-patterns set and any order in which the quests
\* of a batch are validated, validate_quest yields the same ERROR and WARNING
\* issues for a given quest; only the INFO issue of no_duplicate_structures
\* can differ.
Thm_C29_AcceptanceIgnoresSeenPatterns ==
    /\ call.op = "validate_quest" =>
          \A seen \in SUBSET SeenPatterns :
             LET other == validate_quest(WithSeen(validator, seen), call.passed[1])
             IN /\ ErrorsAndWarnings(other) = ErrorsAndWarnings(result)
                /\ ApartFromDuplicateInfo(other) = ApartFromDuplicateInfo(result)
                /\ get_invalid_quest_ids(other) = get_invalid_quest_ids(result)
    /\ call.op = "validate_all" =>
          \A seen \in SUBSET SeenPatterns :
             LET quests == call.passed
                 other == validate_all(WithSeen(validator, seen), Reverse(quests))
             IN /\ \A k \in DOMAIN quests :
                      /\ IssuesOf(ErrorsAndWarnings(other), quests[k].id)
                            = IssuesOf(ErrorsAndWarnings(result), quests[k].id)
                      /\ IssuesOf(ApartFromDuplicateInfo(other), quests[k].id)
                            = IssuesOf(ApartFromDuplicateInfo(result), quests[k].id)
                /\ get_invalid_quest_ids(other) = get_invalid_quest_ids(result)

\* the quest with unknown ids validated a second time: the same errors as on
\* a validator that has seen nothing, and the INFO on top of them
Wit_C29_ErrorsSameInfoDiffers ==
    /\ call.op = "validate_quest"
    /\ HasError
    /\ DuplicateReported(result) = {"q1"}
    /\ LET fresh == validate_quest(WithSeen(validator, {}), call.passed[1])
       IN /\ fresh # result
          /\ ErrorsAndWarnings(fresh) = ErrorsAndWarnings(result)
          /\ DuplicateReported(fresh) = {}

====
